---- MODULE Spec2Model ----
(***************************************************************************)
(* A model of the backup engine of VermiNew/BackupTool.                    *)
(*                                                                         *)
(*   core/backup_manager.py  BackupManager (prepare_backup, perform_backup,*)
(*                           analyze_differences, _compare_files, stop,    *)
(*                           save_report)                                  *)
(*   core/file_handler.py    FileHandler.copy_file                         *)
(*   core/file_analyzer.py   FileAnalyzer.needs_update/analyze_differences *)
(*   core/file_queue.py      FileQueue                                     *)
(*                                                                         *)
(* Three specifications share the module, each over its own variables:     *)
(*   Spec          one BackupManager working on a source and a destination *)
(*                 tree, with stop() called from another thread            *)
(*   SpecAnalyzer  FileAnalyzer.analyze_differences on two inventories     *)
(*   SpecQueue     one FileQueue                                           *)
(***************************************************************************)
EXTENDS Integers, Sequences, FiniteSets, TLC

\* ------------------------------------------------------------------ bounds

\* prepare_backup calls in one behaviour
MaxRuns == 2
\* failures in one behaviour: rejected paths, a full volume, permission
\* errors, I/O faults
MaxFaults == 2
\* file sizes, in chunks of FileHandler.CHUNK_SIZE
MaxSize == 2
\* modification times in the inventories given to FileAnalyzer, in seconds
MaxMtime == 3

\* ------------------------------------------------------- program constants

\* "Use 2-second tolerance for filesystem differences"
MTIME_TOLERANCE == 2

\* ---------------------------------------------------------------- helpers

Abs(x) == IF x < 0 THEN -x ELSE x

Range(s) == {s[i] : i \in 1..Len(s)}

IsPrefix(s, t) == Len(s) <= Len(t) /\ \A i \in 1..Len(s) : s[i] = t[i]

VARIABLES
  \* ---- BackupManager and the two directory trees (Spec)
  source_tree,   \* relpath -> file under source_path
  dest_tree,     \* relpath -> file under dest_path
  dest_root,     \* dest_path exists (as a directory)
  running,       \* BackupManager._running
  report_data,   \* BackupManager.report_data
  clock,         \* datetime.now(): advanced by every prepare_backup
  pc,            \* where the worker is: idle, prepared, loop, copying, returned
  differences,   \* the dict prepare_backup returned / perform_backup works on
  message,       \* the summary message prepare_backup returned
  pos,           \* perform_backup: [list, i], the next path of its loops
  written,       \* copy_file: chunks written to the open destination file
  result,        \* perform_backup's return value: "none", "true", "false"
  callback,      \* the progress_callback handed to perform_backup
  report_saved,  \* save_report: the run (clock) and end_time last written
  faults,        \* failures so far
  \* ---- history of the current perform_backup call
  ops,           \* the operations begun, in order
  stopped,       \* where perform_backup was when stop() was called since
                 \* it set _running: "no", "loop" (between two operations)
                 \* or "copying" (inside copy_file)
  pending_at_stop, \* ... while paths were still waiting for their check
  escaped,       \* an exception reached perform_backup's outer handler
  stop_ever,     \* stop() was called at some time in the behaviour
  prev_clean     \* the last perform_backup ran to completion with no error

backup_vars ==
  <<source_tree, dest_tree, dest_root, running, report_data, clock, pc,
    differences, message, pos, written, result, callback, report_saved,
    faults, ops, stopped, pending_at_stop, escaped, stop_ever,
    prev_clean>>

\* ------------------------------------------------------- the two trees

\* BackupManager.save_report writes dest_path / 'backup_report.json'
ReportName == "backup_report.json"

Paths == {"a.txt", "b.txt"}

AllPaths == Paths \cup {ReportName}

\* the order in which Path.rglob('*') yields the files of a tree
RglobOrder == <<"a.txt", "b.txt", ReportName>>

\* st_mode of a file created by open(path, 'wb'), and another st_mode
DefaultMode == "0644"
OtherMode == "0755"

\* contents: a file holds the first `size` chunks of the stream `data`;
\* json.dump(report_data) is a stream of its own for every start_time
ReportData(start_time) == 2 + start_time

Absent == [exists |-> FALSE, size |-> 0, mtime |-> 0, mode |-> DefaultMode, data |-> 0]

File(size, mtime, mode, data) ==
  [exists |-> TRUE, size |-> size, mtime |-> mtime, mode |-> mode, data |-> data]

\* the bytes of a file, as read in chunks
Content(f) == IF f.size = 0 THEN <<>> ELSE [i \in 1..f.size |-> f.data]

\* modification times of the files the trees start with: equal, at the
\* tolerance and just beyond it
Mtimes == {0, MTIME_TOLERANCE, MTIME_TOLERANCE + 1}

\* the wall clock while the tool runs: later than every initial mtime by
\* more than the tolerance
Now == 2 * MTIME_TOLERANCE + 2

\* The files the trees start with.  Attributes are drawn relative to each
\* other: source files vary in size (one chunk, or the most) and st_mode at
\* one mtime, destination
\* files vary in mtime and content at one size and the default st_mode, so
\* every relation the comparison distinguishes (same/other size, mtime
\* inside/at/outside the tolerance, same/other mode, same/other bytes with
\* everything else equal) occurs between a source file and its destination
\* counterpart.
SourceFiles ==
  {File(s, 0, m, 0) : s \in {1, MaxSize}, m \in {DefaultMode, OtherMode}}

DestFiles ==
  {File(1, t, DefaultMode, 0) : t \in Mtimes} \cup {File(1, 0, DefaultMode, 1)}

\* a backup_report.json found in a tree when the tool starts
OldReport == File(1, 0, DefaultMode, ReportData(0))

\* the second file: absent, or differing in size between the trees
SecondSource == File(MaxSize, 0, DefaultMode, 0)
SecondDest == File(1, 0, DefaultMode, 0)

SourceTrees ==
  {t \in [AllPaths -> SourceFiles \cup {Absent, OldReport}] :
     /\ t["a.txt"] # OldReport
     /\ t["b.txt"] \in {Absent, SecondSource}
     /\ t[ReportName] \in {Absent, OldReport}}

DestTrees ==
  {t \in [AllPaths -> DestFiles \cup {Absent, OldReport}] :
     /\ t["a.txt"] # OldReport
     /\ t["b.txt"] \in {Absent, SecondDest}
     /\ t[ReportName] \in {Absent, OldReport}}

\* ------------------------------------------------------- BackupManager

\* BackupManager.__init__: report_data
NewReport ==
  [start_time |-> 0, end_time |-> 0, copied_files |-> <<>>,
   updated_files |-> <<>>, deleted_files |-> <<>>, errors |-> <<>>]

NoDifferences == [to_copy |-> <<>>, to_update |-> <<>>, to_delete |-> <<>>]

\* BackupManager._compare_files: is_different.  The checks follow the code's
\* order: size, mtime beyond the tolerance, st_mode, then the bytes chunk by
\* chunk.  (The win32 attribute test runs on Windows only.)
compare_files(source_file, dest_file) ==
  IF source_file.size # dest_file.size THEN TRUE
  ELSE IF Abs(source_file.mtime - dest_file.mtime) > MTIME_TOLERANCE THEN TRUE
  ELSE IF source_file.mode # dest_file.mode THEN TRUE
  ELSE Content(source_file) # Content(dest_file)

\* BackupManager.analyze_differences.  Both loops test _running before each
\* file and break; the flag does not change inside this step, so a cleared
\* flag leaves all three lists empty.
\* `excluded` is the set of relpaths that Path.match accepts for some pattern
\* of exclude_patterns; only the loop over the source tests it.
analyze_differences_excluding(src, dst, root, run, excluded) ==
  [to_copy |->
     SelectSeq(RglobOrder,
       LAMBDA p : run /\ src[p].exists /\ p \notin excluded
                      /\ ~dst[p].exists),
   to_update |->
     SelectSeq(RglobOrder,
       LAMBDA p : run /\ src[p].exists /\ p \notin excluded
                      /\ dst[p].exists /\ compare_files(src[p], dst[p])),
   to_delete |->
     SelectSeq(RglobOrder,
       LAMBDA p : run /\ root /\ dst[p].exists /\ ~src[p].exists)]

\* analyze_differences of a BackupManager whose exclude_patterns is the empty
\* list __init__ gives it
analyze_differences(src, dst, root, run) ==
  analyze_differences_excluding(src, dst, root, run, {})

\* prepare_backup's summary: total_files counts to_copy and to_update
SummaryMessage(d) ==
  IF Len(d.to_copy) + Len(d.to_update) = 0 THEN "No files need to be updated"
  ELSE "Found files to process"

\* BackupManager.save_report: nothing without a start_time; open(.., 'w')
\* creates or truncates dest_path/backup_report.json and json.dump writes
\* it; an open() that fails (no destination directory) is only logged.
ReportWritten(rd, root) == rd.start_time # 0 /\ root

save_report_file(rd, dst, root) ==
  IF ReportWritten(rd, root)
    THEN [dst EXCEPT ![ReportName] =
            File(1, Now, IF @.exists THEN @.mode ELSE DefaultMode,
                 ReportData(rd.start_time))]
    ELSE dst

save_report_record(rd, root, saved) ==
  IF ReportWritten(rd, root)
    THEN [run |-> rd.start_time, end_time |-> rd.end_time]
    ELSE saved

\* a handler that logs the exception and appends nothing
DropError(rd, now, kind, path) == rd

\* report_data['errors'].append({"time": datetime.now(), "error": ...})
AppendError(rd, now, kind, path) ==
  [rd EXCEPT !.errors = Append(@, [time |-> now, error |-> <<kind, path>>])]

\* a file_info that goes to copied_files whatever the operation
AppendCopied(rd, list, now, path, size) ==
  [rd EXCEPT !.copied_files =
     Append(@, [path |-> path, time |-> now, size |-> size])]

\* perform_backup's file_info appended to copied_files or updated_files
AppendFileInfo(rd, list, now, path, size) ==
  IF list = "to_copy"
    THEN [rd EXCEPT !.copied_files =
            Append(@, [path |-> path, time |-> now, size |-> size])]
    ELSE [rd EXCEPT !.updated_files =
            Append(@, [path |-> path, time |-> now, size |-> size])]

\* perform_backup's loops: to_delete, then for operation in ['to_copy',
\* 'to_update'].  A position is the list and the index of the next path;
\* "end" when the three loops are exhausted.
ListsCopyFirst == <<"to_copy", "to_delete", "to_update">>

Lists == <<"to_delete", "to_copy", "to_update">>

EndPos == [list |-> "end", i |-> 0]

RECURSIVE FirstFrom(_, _)
FirstFrom(d, k) ==
  IF k > Len(Lists) THEN EndPos
  ELSE IF Len(d[Lists[k]]) > 0 THEN [list |-> Lists[k], i |-> 1]
  ELSE FirstFrom(d, k + 1)

ListIndex(l) == CHOOSE k \in 1..Len(Lists) : Lists[k] = l

FirstPos(d) == FirstFrom(d, 1)

NextPos(d, p) ==
  IF p.i < Len(d[p.list]) THEN [list |-> p.list, i |-> p.i + 1]
  ELSE FirstFrom(d, ListIndex(p.list) + 1)

\* a loop that works on the other path
OtherPath(d, p) == CHOOSE q \in Paths : q # d[p.list][p.i]

CurrentPath(d, p) == d[p.list][p.i]

\* a loop that does not look at the flag
NeverCancelled(run) == FALSE

\* the cancellation test before each operation: "if not self._running"
Cancelled(run) == ~run

\* what perform_backup would process, in its order
Planned(d) ==
  [i \in 1..Len(d.to_delete) |-> <<"to_delete", d.to_delete[i]>>]
  \o [i \in 1..Len(d.to_copy) |-> <<"to_copy", d.to_copy[i]>>]
  \o [i \in 1..Len(d.to_update) |-> <<"to_update", d.to_update[i]>>]

\* ---- the progress callback

\* None, or BackupThread.update_progress
Callbacks == {"none", "update_progress"}

RECURSIVE SumSizes(_, _)
SumSizes(src, paths) ==
  IF paths = <<>> THEN 0
  ELSE src[Head(paths)].size + SumSizes(src, Tail(paths))

\* BackupThread.__init__: total_size over to_copy and to_update
TotalSize(src, d) == SumSizes(src, d.to_copy \o d.to_update)

\* progress_callback(f"Progress: {processed_files}/{total_files} files...")
\* BackupThread.update_progress computes copied_size / total_size when
\* total_size > 0, and copied_size - last_processed_size once
\* MIN_UPDATE_INTERVAL has passed: both raise TypeError on the string.
CallbackRaises(cb, total_size, elapsed) ==
  cb = "update_progress" /\ (total_size > 0 \/ elapsed)

\* ------------------------------------------------------------- Init

BackupInit ==
  /\ source_tree \in SourceTrees
  /\ dest_tree \in DestTrees
  /\ dest_root \in {r \in BOOLEAN : (\E p \in AllPaths : dest_tree[p].exists) => r}
  /\ running = TRUE
  /\ report_data = NewReport
  /\ clock = 0
  /\ pc = "idle"
  /\ differences = NoDifferences
  /\ message = "none"
  /\ pos = EndPos
  /\ written = 0
  /\ result = "none"
  /\ callback = "none"
  /\ report_saved = [run |-> 0, end_time |-> 0]
  /\ faults = 0
  /\ ops = <<>>
  /\ stopped = "no"
  /\ pending_at_stop = FALSE
  /\ escaped = FALSE
  /\ stop_ever = FALSE
  /\ prev_clean = FALSE

\* ------------------------------------------------------------ stop()

\* BackupManager.stop, called from the controlling thread once a scan has
\* returned its differences or while perform_backup runs
Stop ==
  /\ running
  /\ pc \in {"prepared", "loop", "copying"}
  /\ running' = FALSE
  /\ stop_ever' = TRUE
  /\ stopped' = IF pc \in {"loop", "copying"} THEN pc ELSE stopped
  /\ pending_at_stop' =
       IF pc = "loop" THEN pos # EndPos
       ELSE IF pc = "copying" THEN NextPos(differences, pos) # EndPos
       ELSE pending_at_stop
  /\ UNCHANGED <<source_tree, dest_tree, dest_root, report_data, clock, pc,
                 differences, message, pos, written, result, callback,
                 report_saved, faults, ops, escaped, prev_clean>>

\* ---------------------------------------------------- prepare_backup

\* a prepare_backup that runs the difference analysis before the pre-flight
\* checks and returns its result with the failure
prepare_backup_failed_after_analysis(preflight, src, dst, root, run) ==
  [message |-> preflight, differences |-> analyze_differences(src, dst, root, run)]

\* what prepare_backup returns when analyze_paths or the free-space check
\* fails: (False, message, {}), the difference analysis not run
prepare_backup_failed(preflight, src, dst, root, run) ==
  [message |-> preflight, differences |-> NoDifferences]

\* prepare_backup(source_path, dest_path).  analyze_paths and the free-space
\* test depend on the paths and the volume: their outcome is an input here.
\* A failure is appended to report_data['errors'] and returns
\* (False, message, {}).
PrepareBackup ==
  /\ pc \in {"idle", "prepared", "returned"}
  /\ clock < MaxRuns
  /\ clock' = clock + 1
  /\ \E preflight \in {"ok", "path", "space"} :
       IF preflight = "ok"
         THEN /\ faults' = faults
              /\ differences' =
                   analyze_differences(source_tree, dest_tree, dest_root, running)
              /\ message' = SummaryMessage(differences')
              /\ report_data' = [report_data EXCEPT !.start_time = clock']
              /\ pc' = "prepared"
         ELSE /\ faults < MaxFaults
              /\ faults' = faults + 1
              /\ differences' =
                   prepare_backup_failed(preflight, source_tree, dest_tree,
                                         dest_root, running).differences
              /\ message' =
                   prepare_backup_failed(preflight, source_tree, dest_tree,
                                         dest_root, running).message
              /\ report_data' =
                   AppendError([report_data EXCEPT !.start_time = clock'],
                               clock', preflight, "")
              /\ pc' = "idle"
  /\ result' = "none"
  \* the history of the perform_backup call before starts afresh
  /\ callback' = "none"
  /\ ops' = <<>>
  /\ stopped' = "no"
  /\ pending_at_stop' = FALSE
  /\ escaped' = FALSE
  /\ UNCHANGED <<source_tree, dest_tree, dest_root, running, pos, written,
                 report_saved, stop_ever, prev_clean>>

\* ---------------------------------------------------- perform_backup

\* the outer "except Exception": the error is recorded, end_time stamped,
\* save_report called, False returned
Abort(rd, dst, root) ==
  LET failed == [AppendError(rd, clock, "Backup failed", "")
                   EXCEPT !.end_time = clock]
  IN /\ report_data' = failed
     /\ dest_tree' = save_report_file(failed, dst, root)
     /\ report_saved' = save_report_record(failed, root, report_saved)
     /\ result' = "false"
     /\ pc' = "returned"
     /\ escaped' = TRUE
     /\ prev_clean' = FALSE
     /\ pos' = EndPos

\* the end of one iteration: processed_files += 1 and the progress callback,
\* which is called outside the per-file try
EndOfIteration(rd, dst) ==
  \E elapsed \in BOOLEAN :
    IF CallbackRaises(callback, TotalSize(source_tree, differences), elapsed)
      THEN Abort(rd, dst, dest_root)
      ELSE /\ report_data' = rd
           /\ dest_tree' = dst
           /\ pos' = NextPos(differences, pos)
           /\ pc' = "loop"
           /\ UNCHANGED <<report_saved, result, escaped, prev_clean>>

\* an entry of the history of operations begun
Op(list, path, outcome) ==
  [list |-> list, path |-> path, after_stop |-> (stopped # "no"),
   outcome |-> outcome]

\* perform_backup up to its first loop: _running = True, then
\* dest_path.mkdir(parents=True, exist_ok=True), which may fail when the
\* directory has to be created
PerformStart ==
  /\ pc = "prepared"
  /\ running' = TRUE
  /\ \E cb \in Callbacks : callback' = cb
  /\ ops' = <<>>
  /\ stopped' = "no"
  /\ pending_at_stop' = FALSE
  /\ written' = 0
  /\ \/ /\ dest_root' = TRUE
        /\ faults' = faults
        /\ pos' = FirstPos(differences)
        /\ pc' = "loop"
        /\ escaped' = FALSE
        /\ UNCHANGED <<report_data, dest_tree, report_saved, result, prev_clean>>
     \/ /\ ~dest_root
        /\ faults < MaxFaults
        /\ faults' = faults + 1
        /\ dest_root' = FALSE
        /\ Abort(report_data, dest_tree, FALSE)
  /\ UNCHANGED <<source_tree, clock, differences, message, stop_ever>>

\* "if not self._running: return False" at the head of an iteration
ReturnCancelled ==
  /\ pc = "loop"
  /\ pos # EndPos
  /\ Cancelled(running)
  /\ pc' = "returned"
  /\ result' = "false"
  /\ prev_clean' = FALSE
  /\ UNCHANGED <<source_tree, dest_tree, dest_root, running, report_data,
                 clock, differences, message, pos, written, callback,
                 report_saved, faults, ops, stopped,
                 pending_at_stop, escaped, stop_ever>>

\* one iteration of the to_delete loop: unlink when the file exists; an
\* exception of unlink is recorded and the loop goes on
DeleteFile ==
  /\ pc = "loop"
  /\ pos.list = "to_delete"
  /\ ~Cancelled(running)
  /\ LET p == CurrentPath(differences, pos) IN
       \/ /\ faults' = faults
          /\ ops' = Append(ops, Op("to_delete", p, "ok"))
          /\ EndOfIteration(
               IF dest_tree[p].exists
                 THEN [report_data EXCEPT !.deleted_files = Append(@, p)]
                 ELSE report_data,
               [dest_tree EXCEPT ![p] = Absent])
       \/ /\ dest_tree[p].exists
          /\ faults < MaxFaults
          /\ faults' = faults + 1
          /\ ops' = Append(ops, Op("to_delete", p, "failed"))
          /\ EndOfIteration(AppendError(report_data, clock, "Delete error", p),
                            dest_tree)
  /\ UNCHANGED <<source_tree, dest_root, running, clock, differences, message,
                 written, callback, stopped, pending_at_stop,
                 stop_ever>>

\* copy_file up to the opening of the two files.  A missing or unreadable
\* source, or an existing destination that is not writable, returns
\* (False, message); perform_backup raises it and records the error.
\* dest_path.open('wb') creates the file or truncates it, keeping its mode.
OpenedFile(old) ==
  File(0, Now, IF old.exists THEN old.mode ELSE DefaultMode, 0)

CopyBegin ==
  /\ pc = "loop"
  /\ pos.list \in {"to_copy", "to_update"}
  /\ ~Cancelled(running)
  /\ LET p == CurrentPath(differences, pos) IN
       \/ /\ source_tree[p].exists
          /\ faults' = faults
          /\ ops' = Append(ops, Op(pos.list, p, "started"))
          /\ dest_tree' = [dest_tree EXCEPT ![p] = OpenedFile(@)]
          /\ written' = 0
          /\ pc' = "copying"
          /\ UNCHANGED <<report_data, pos, report_saved, result, escaped,
                         prev_clean>>
       \/ /\ \/ ~source_tree[p].exists /\ faults' = faults
             \/ faults < MaxFaults /\ faults' = faults + 1
          /\ ops' = Append(ops, Op(pos.list, p, "failed"))
          /\ written' = 0
          /\ EndOfIteration(AppendError(report_data, clock, pos.list, p),
                            dest_tree)
  /\ UNCHANGED <<source_tree, dest_root, running, clock, differences, message,
                 callback, stopped, pending_at_stop, stop_ever>>

\* dest.write(chunk): the next chunk of the source reaches the destination
WriteChunk(f, source_file) ==
  [f EXCEPT !.size = @ + 1, !.data = source_file.data]

\* one round of copy_file's loop with a chunk read; an I/O fault ends
\* copy_file with (False, message) and leaves what was written
CopyChunk ==
  /\ pc = "copying"
  /\ LET p == CurrentPath(differences, pos) IN
       /\ written < source_tree[p].size
       /\ \/ /\ faults' = faults
             /\ dest_tree' = [dest_tree EXCEPT ![p] = WriteChunk(@, source_tree[p])]
             /\ written' = written + 1
             /\ UNCHANGED <<report_data, pos, pc, report_saved, result, escaped,
                            prev_clean, ops>>
          \/ /\ faults < MaxFaults
             /\ faults' = faults + 1
             /\ written' = 0
             /\ ops' = [ops EXCEPT ![Len(ops)].outcome = "failed"]
             /\ EndOfIteration(AppendError(report_data, clock, pos.list, p),
                               dest_tree)
  /\ UNCHANGED <<source_tree, dest_root, running, clock, differences, message,
                 callback, stopped, pending_at_stop, stop_ever>>

\* a copy that leaves the timestamps of the new file
KeepTimestamps(f, source_file) == f

\* os.utime(dest_path, (st_atime, st_mtime)) of the source
CopyMetadata(f, source_file) == [f EXCEPT !.mtime = source_file.mtime]

\* the read that returns no chunk: the files are closed, the timestamps
\* copied, copy_file returns success and perform_backup records file_info
CopyDone ==
  /\ pc = "copying"
  /\ LET p == CurrentPath(differences, pos) IN
       /\ written = source_tree[p].size
       /\ ops' = [ops EXCEPT ![Len(ops)].outcome = "ok"]
       /\ EndOfIteration(
            AppendFileInfo(report_data, pos.list, clock, p, source_tree[p].size),
            [dest_tree EXCEPT ![p] = CopyMetadata(@, source_tree[p])])
  /\ written' = 0
  /\ UNCHANGED <<source_tree, dest_root, running, clock, differences, message,
                 callback, faults, stopped, pending_at_stop,
                 stop_ever>>

\* after the loops: end_time, save_report, return True
RunErrors(rd, now) == {i \in 1..Len(rd.errors) : rd.errors[i].time = now}

PerformFinish ==
  /\ pc = "loop"
  /\ pos = EndPos
  /\ LET done == [report_data EXCEPT !.end_time = clock] IN
       /\ report_data' = done
       /\ dest_tree' = save_report_file(done, dest_tree, dest_root)
       /\ report_saved' = save_report_record(done, dest_root, report_saved)
  /\ result' = "true"
  /\ pc' = "returned"
  /\ prev_clean' = (RunErrors(report_data, clock) = {} /\ ~stop_ever)
  /\ UNCHANGED <<source_tree, dest_root, running, clock, differences, message,
                 pos, written, callback, faults, ops, stopped,
                 pending_at_stop, escaped, stop_ever>>

\* ========================================================= FileAnalyzer

VARIABLES
  source_files,  \* the inventory of the source: relpath -> {size, mtime}
  dest_files,    \* the inventory of the destination
  analysis       \* what analyze_differences returned, Unanalyzed before

analyzer_vars == <<source_files, dest_files, analysis>>

\* the relpaths of the inventories, in the order the dicts were filled
Relpaths == <<"a.txt", "b.txt", "c.txt">>

Info(size, mtime) == [size |-> size, mtime |-> mtime]

\* Inventories hold mtimes 0..MaxMtime.  Source entries take every size at
\* the two ends of the range and destination entries every mtime at one
\* size, so a pair differs by 0..MaxMtime seconds with either side newer.
SourceInfos == {Info(s, t) : s \in 1..MaxSize, t \in {0, MaxMtime}}

DestInfos == {Info(1, t) : t \in 0..MaxMtime}

Inventories(infos) ==
  UNION {[keys -> infos] : keys \in SUBSET Range(Relpaths)}

\* dict iteration: the keys in insertion order
Keys(files) == SelectSeq(Relpaths, LAMBDA p : p \in DOMAIN files)

Unanalyzed ==
  [to_copy |-> <<"?">>, to_update |-> <<"?">>, to_delete |-> <<"?">>,
   unchanged |-> <<"?">>]

\* FileAnalyzer.needs_update as written with >= in place of >
needs_update_at_tolerance(src_info, dest_info) ==
  IF src_info.size # dest_info.size THEN TRUE
  ELSE Abs(src_info.mtime - dest_info.mtime) >= MTIME_TOLERANCE

\* FileAnalyzer.needs_update
needs_update(src_info, dest_info) ==
  IF src_info.size # dest_info.size THEN TRUE
  ELSE Abs(src_info.mtime - dest_info.mtime) > MTIME_TOLERANCE

\* the first loop of FileAnalyzer.analyze_differences, over
\* source_files.items(), with `d` the lists so far
RECURSIVE ClassifySource(_, _, _, _)
ClassifySource(keys, source, dest, d) ==
  IF keys = <<>> THEN d
  ELSE LET rel_path == Head(keys) IN
    ClassifySource(Tail(keys), source, dest,
      IF rel_path \notin DOMAIN dest
        THEN [d EXCEPT !.to_copy = Append(@, rel_path)]
      ELSE IF needs_update(source[rel_path], dest[rel_path])
        THEN [d EXCEPT !.to_update = Append(@, rel_path)]
      ELSE [d EXCEPT !.unchanged = Append(@, rel_path)])

\* the second loop, over dest_files
RECURSIVE FindDeleted(_, _, _)
FindDeleted(keys, source, d) ==
  IF keys = <<>> THEN d
  ELSE LET rel_path == Head(keys) IN
    FindDeleted(Tail(keys), source,
      IF rel_path \notin DOMAIN source
        THEN [d EXCEPT !.to_delete = Append(@, rel_path)]
        ELSE d)

\* analyze_differences with the second loop listing every destination path
FileAnalyzer_delete_all(source, dest) ==
  [ClassifySource(Keys(source), source, dest,
     [to_copy |-> <<>>, to_update |-> <<>>, to_delete |-> <<>>,
      unchanged |-> <<>>])
   EXCEPT !.to_delete = Keys(dest)]

\* FileAnalyzer.analyze_differences
FileAnalyzer_analyze_differences(source, dest) ==
  FindDeleted(Keys(dest), source,
    ClassifySource(Keys(source), source, dest,
      [to_copy |-> <<>>, to_update |-> <<>>, to_delete |-> <<>>,
       unchanged |-> <<>>]))

AnalyzerInit ==
  /\ source_files \in Inventories(SourceInfos)
  /\ dest_files \in Inventories(DestInfos)
  /\ analysis = Unanalyzed

AnalyzerIdle ==
  /\ source_files = <<>>
  /\ dest_files = <<>>
  /\ analysis = Unanalyzed

Analyze ==
  /\ analysis = Unanalyzed
  /\ analysis' = FileAnalyzer_analyze_differences(source_files, dest_files)
  /\ UNCHANGED <<source_files, dest_files>>

\* ============================================================ FileQueue

VARIABLES
  queue,        \* FileQueue.queue: the heapq list of FileOperation
  in_progress,  \* FileQueue.in_progress: path -> FileOperation
  completed,    \* FileQueue.completed: path -> FileOperation
  total_size,   \* FileQueue.total_size
  added,        \* add_operation calls so far
  q_pc,         \* "idle", or "dequeuing": get_next_operation does not return
  spins,        \* rounds of its loop that put an operation back, last call
  returned,     \* what the last call of get_next_operation returned
  called        \* the last call made: its name, and the path completed

queue_vars ==
  <<queue, in_progress, completed, total_size, added, q_pc, spins, returned,
    called>>

\* add_operation calls in one behaviour
MaxOps == 3
\* rounds of get_next_operation's loop that put an operation back, per call
MaxSpins == 60

\* OperationType
DELETE == 100
MOVE == 80
UPDATE == 60
COPY == 40

SMALL_FILE_THRESHOLD == 10 * 1024 * 1024
LARGE_FILE_THRESHOLD == 100 * 1024 * 1024
SMALL_FILE_BONUS == 20
LARGE_FILE_PENALTY == 10
DEPTH_PENALTY == 5

\* a Path is the sequence of its parts; these are relative paths
QueuePaths == {<<"a">>, <<"a", "b">>, <<"a", "b", "c">>}

\* the operation type enters only through _calculate_priority, whose values
\* for every type are those of SpecPriority
QueueKinds == {COPY}

\* a medium and a large file
QueueSizes == {50 * 1024 * 1024, 200 * 1024 * 1024}

\* priorities are kept in tenths, the unit of the 0.1 decay, in exact
\* arithmetic: the rounding of the repeated float subtraction (about 1e-13)
\* is left out; it can only decide between priorities that are equal here
Tenths == 10

\* FileQueue._calculate_priority
\* the thresholds taken inclusively: a file of exactly 10 MB counts as small
\* and a file of exactly 100 MB as large
calculate_priority_inclusive(path, size, op_type) ==
  LET sized == IF size <= SMALL_FILE_THRESHOLD THEN op_type + SMALL_FILE_BONUS
               ELSE IF size >= LARGE_FILE_THRESHOLD THEN op_type - LARGE_FILE_PENALTY
               ELSE op_type
  IN (sized - Len(path) * DEPTH_PENALTY) * Tenths

calculate_priority(path, size, op_type) ==
  LET sized == IF size < SMALL_FILE_THRESHOLD THEN op_type + SMALL_FILE_BONUS
               ELSE IF size > LARGE_FILE_THRESHOLD THEN op_type - LARGE_FILE_PENALTY
               ELSE op_type
  IN (sized - Len(path) * DEPTH_PENALTY) * Tenths

\* FileQueue._add_dependencies: the parents of a relative path, nearest
\* first, until Path('.') whose parts are empty
add_dependencies(path) ==
  [i \in 1..(Len(path) - 1) |-> SubSeq(path, 1, Len(path) - i)]

\* FileOperation.__lt__
Lt(a, b) == a.priority > b.priority

\* heapq._siftdown, on a 1-based sequence
RECURSIVE SiftDown(_, _, _, _)
SiftDown(heap, startpos, at, newitem) ==
  IF at > startpos /\ Lt(newitem, heap[at \div 2])
    THEN SiftDown([heap EXCEPT ![at] = heap[at \div 2]], startpos,
                  at \div 2, newitem)
    ELSE [heap EXCEPT ![at] = newitem]

\* heapq._siftup: the smaller child moves up until a leaf is reached, then
\* the item is sifted down from there
RECURSIVE BubbleUp(_, _)
BubbleUp(heap, at) ==
  LET childpos == 2 * at
      rightpos == childpos + 1
  IN IF childpos > Len(heap) THEN <<heap, at>>
     ELSE LET c == IF rightpos <= Len(heap) /\ ~Lt(heap[childpos], heap[rightpos])
                     THEN rightpos ELSE childpos
          IN BubbleUp([heap EXCEPT ![at] = heap[c]], c)

SiftUp(heap, at) ==
  LET b == BubbleUp(heap, at)
  IN SiftDown(b[1], at, b[2], heap[at])

\* heapq.heappush
heappush(heap, item) == SiftDown(Append(heap, item), 1, Len(heap) + 1, item)

\* heapq.heappop: <<the item, the heap left>>
heappop(heap) ==
  LET lastelt == heap[Len(heap)]
      rest == SubSeq(heap, 1, Len(heap) - 1)
  IN IF rest = <<>> THEN <<lastelt, rest>>
     ELSE <<rest[1], SiftUp([rest EXCEPT ![1] = lastelt], 1)>>

\* dict[key] = value
Put(dict, key, value) ==
  [k \in DOMAIN dict \cup {key} |-> IF k = key THEN value ELSE dict[k]]

\* a pop that leaves the entry where it is
PopNothing(dict, key) == dict

\* dict.pop(key)
Pop(dict, key) == [k \in DOMAIN dict \ {key} |-> dict[k]]

EmptyDict == [k \in {} |-> 0]

\* the test of get_next_operation with any() in place of all()
deps_any_completed(operation, done) ==
  \/ Len(operation.dependencies) = 0
  \/ \E i \in 1..Len(operation.dependencies) :
       operation.dependencies[i] \in DOMAIN done

\* all(dep in self.completed for dep in operation.dependencies)
deps_completed(operation, done) ==
  \A i \in 1..Len(operation.dependencies) :
    operation.dependencies[i] \in DOMAIN done

NotCalled == [kind |-> "not called"]

QueueInit ==
  /\ queue = <<>>
  /\ in_progress = EmptyDict
  /\ completed = EmptyDict
  /\ total_size = 0
  /\ added = 0
  /\ q_pc = "idle"
  /\ spins = 0
  /\ returned = NotCalled
  /\ called = [name |-> "__init__"]

\* FileQueue.add_operation.  (_cleanup_completed acts only once completed
\* holds more than COMPLETED_CLEANUP_THRESHOLD = 1200 entries.)
AddOperation ==
  /\ q_pc = "idle"
  /\ added < MaxOps
  /\ \E path \in QueuePaths, size \in QueueSizes, op_type \in QueueKinds :
       LET operation ==
             [id |-> added + 1, path |-> path, operation |-> op_type,
              size |-> size,
              priority |-> calculate_priority(path, size, op_type),
              dependencies |-> add_dependencies(path)]
       IN /\ queue' = heappush(queue, operation)
          /\ total_size' = total_size + size
  /\ added' = added + 1
  /\ returned' = NotCalled
  /\ called' = [name |-> "add_operation"]
  /\ UNCHANGED <<in_progress, completed, q_pc, spins>>

\* an operation put back with the priority it had
Undecayed(operation) == operation

\* "operation.priority -= 0.1", in tenths
Decayed(operation) == [operation EXCEPT !.priority = @ - 1]

\* no operation of the queue has all its dependencies in completed
NoneReady(heap, done) ==
  \A k \in 1..Len(heap) : ~deps_completed(heap[k], done)

\* the loop "while self.queue" of get_next_operation from its round number
\* `rounds` on: what the call returns, the queue it leaves and the rounds
\* that put an operation back.  "running" after MaxSpins such rounds.
RECURSIVE Dequeue(_, _, _)
Dequeue(heap, done, rounds) ==
  IF heap = <<>>
    THEN [kind |-> "None", queue |-> heap, rounds |-> rounds]
  ELSE LET popped == heappop(heap)
           operation == popped[1]
       IN IF deps_completed(operation, done)
            THEN [kind |-> "operation", operation |-> operation,
                  queue |-> popped[2], rounds |-> rounds]
          ELSE IF rounds >= MaxSpins
            THEN [kind |-> "running", queue |-> heap, rounds |-> rounds]
          ELSE Dequeue(heappush(popped[2], Decayed(operation)), done,
                       rounds + 1)

\* FileQueue.get_next_operation.  The loop changes neither completed nor
\* the membership of the queue, so an operation whose dependencies are not
\* completed stays so during the call: when no queued operation is ready,
\* every round pops one, lowers its priority and pushes it back, and the
\* call never returns (q_pc stays "dequeuing"; the priorities that go on
\* falling are not tracked).  Otherwise the call runs to its return.
GetNextOperation ==
  /\ q_pc = "idle"
  /\ IF queue # <<>> /\ NoneReady(queue, completed)
       THEN /\ q_pc' = "dequeuing"
            /\ returned' = NotCalled
            /\ UNCHANGED <<queue, in_progress, spins>>
       ELSE \E call \in {Dequeue(queue, completed, 0)} :
            /\ call.kind # "running"
            /\ queue' = call.queue
            /\ spins' = call.rounds
            /\ q_pc' = "idle"
            /\ IF call.kind = "None"
                 THEN /\ returned' = [kind |-> "None"]
                      /\ UNCHANGED in_progress
                 ELSE /\ returned' = [kind |-> "operation",
                                      operation |-> call.operation]
                      /\ in_progress' =
                           Put(in_progress, call.operation.path, call.operation)
  /\ called' = [name |-> "get_next_operation"]
  /\ UNCHANGED <<completed, total_size, added>>

\* FileQueue.complete_operation
CompleteOperation ==
  /\ q_pc = "idle"
  /\ \E path \in QueuePaths :
       /\ IF path \in DOMAIN in_progress
            THEN /\ completed' = Put(completed, path, in_progress[path])
                 /\ in_progress' = Pop(in_progress, path)
            ELSE UNCHANGED <<in_progress, completed>>
       /\ called' = [name |-> "complete_operation", path |-> path]
  /\ returned' = NotCalled
  /\ UNCHANGED <<queue, total_size, added, q_pc, spins>>

\* ======================================================= specifications

\* ------------------------------------------- FileQueue._calculate_priority
\* One call of _calculate_priority on its own: the arguments of the call and
\* the value it returned.

VARIABLES priority_args, priority

priority_vars == <<priority_args, priority>>

OperationTypes == {DELETE, MOVE, UPDATE, COPY}

\* sizes on both sides of, and exactly at, the two thresholds
PrioritySizes ==
  {0, SMALL_FILE_THRESHOLD - 1, SMALL_FILE_THRESHOLD, SMALL_FILE_THRESHOLD + 1,
   LARGE_FILE_THRESHOLD - 1, LARGE_FILE_THRESHOLD, LARGE_FILE_THRESHOLD + 1}

\* relative paths of zero (Path('.')) to three components
PriorityPaths == {<<>>, <<"a">>, <<"a", "b">>, <<"a", "b", "c">>}

NotComputed == [kind |-> "none"]

PriorityInit ==
  /\ priority_args \in [path : PriorityPaths, size : PrioritySizes,
                        op_type : OperationTypes]
  /\ priority = NotComputed

PriorityIdle ==
  /\ priority_args = [path |-> <<>>, size |-> 0, op_type |-> COPY]
  /\ priority = NotComputed

CalculatePriority ==
  /\ priority = NotComputed
  /\ priority' = [kind |-> "priority",
                  tenths |-> calculate_priority(priority_args.path,
                                                priority_args.size,
                                                priority_args.op_type)]
  /\ UNCHANGED priority_args

\* ------------------------------------------- FileQueue: the completed map
\* The memory management of the completed map, on operations whose paths are
\* pairwise distinct and have no parent directory (nothing waits, nothing is
\* overwritten), so that the three collections are given by their lengths.

VARIABLES queue_len, in_progress_len, completed_len, cleanup_raised

cleanup_vars == <<queue_len, in_progress_len, completed_len, cleanup_raised>>

\* operations queued or in progress at one time
MaxPending == 2

MAX_COMPLETED_ITEMS == 1000

COMPLETED_CLEANUP_THRESHOLD == 1200

\* _cleanup_completed on a completed map of n entries. Above the threshold it
\* sorts the items by x[1].get('completion_time', 0); x[1] is a FileOperation,
\* a dataclass without a get attribute, so the key function raises
\* AttributeError on the first item and the assignment that would keep the last
\* MAX_COMPLETED_ITEMS items is not reached.
cleanup_completed(n) ==
  IF n > COMPLETED_CLEANUP_THRESHOLD
    THEN [raised |-> TRUE, completed |-> n]
    ELSE [raised |-> FALSE, completed |-> n]

CleanupInit ==
  /\ queue_len = 0
  /\ in_progress_len = 0
  /\ completed_len = cleanup_completed(0).completed
  /\ cleanup_raised = FALSE

\* add_operation: the push and the size update precede the cleanup, so they
\* stay when the cleanup raises and add_operation re-raises
CountedAdd ==
  /\ queue_len + in_progress_len < MaxPending
  /\ queue_len' = queue_len + 1
  /\ completed_len' = cleanup_completed(completed_len).completed
  /\ cleanup_raised' = cleanup_completed(completed_len).raised
  /\ UNCHANGED in_progress_len

\* get_next_operation on a non-empty queue of operations without dependencies
CountedGet ==
  /\ queue_len > 0
  /\ queue_len' = queue_len - 1
  /\ in_progress_len' = in_progress_len + 1
  /\ cleanup_raised' = FALSE
  /\ UNCHANGED completed_len

\* complete_operation of a path that is in progress
CountedComplete ==
  /\ in_progress_len > 0
  /\ completed_len < COMPLETED_CLEANUP_THRESHOLD + MaxPending
  /\ in_progress_len' = in_progress_len - 1
  /\ completed_len' = completed_len + 1
  /\ cleanup_raised' = FALSE
  /\ UNCHANGED queue_len

\* ------------------------------------------- FileQueue._add_dependencies
\* The loop of _add_dependencies, one iteration a step. A path is the sequence
\* of its pathlib parts: Path('a/b') is <<"a", "b">>, Path('/a') is
\* <<"/", "a">>, Path('.') is <<>>.

VARIABLES dep_path, dep_current, deps, dep_pc

deps_vars == <<dep_path, dep_current, deps, dep_pc>>

\* entries of deps after which the loop is no longer followed
MaxDeps == 6

Components == {"a", "b"}

RelativePaths ==
  {<<>>} \cup UNION {[1..n -> Components] : n \in 1..3}

AbsolutePaths == {<<"/">> \o p : p \in RelativePaths}

\* Path.parent: the parent of the root is the root, the parent of '.' is '.'
Parent(path) ==
  IF path = <<>> \/ path = <<"/">> THEN path
  ELSE SubSeq(path, 1, Len(path) - 1)

DepsInit ==
  /\ dep_path \in RelativePaths \cup AbsolutePaths
  /\ dep_current = <<>>
  /\ deps = <<>>
  /\ dep_pc = "called"

DepsIdle ==
  /\ dep_path = <<>>
  /\ dep_current = <<>>
  /\ deps = <<>>
  /\ dep_pc = "called"

\* deps = []; current = path.parent
DepsEnter ==
  /\ dep_pc = "called"
  /\ deps' = <<>>
  /\ dep_current' = Parent(dep_path)
  /\ dep_pc' = "loop"
  /\ UNCHANGED dep_path

\* while current.parts: deps.append(current); current = current.parent
DepsIterate ==
  /\ dep_pc = "loop"
  /\ dep_current # <<>>
  /\ Len(deps) < MaxDeps
  /\ deps' = Append(deps, dep_current)
  /\ dep_current' = Parent(dep_current)
  /\ UNCHANGED <<dep_path, dep_pc>>

\* return deps
DepsReturn ==
  /\ dep_pc = "loop"
  /\ dep_current = <<>>
  /\ dep_pc' = "returned"
  /\ UNCHANGED <<dep_path, dep_current, deps>>

\* ------------------------------------------- BackupManager.analyze_paths
\* One call of analyze_paths on a small file system. The two arguments are
\* strings, here sequences of characters; the working directory is the root.
\*   /d      a directory          /d/s    a directory inside /d
\*   /d2     a directory          /f      a regular file
\* and nothing else exists.

VARIABLES source_path, dest_path, validated

paths_vars == <<source_path, dest_path, validated>>

Directories ==
  {<<"/">>, <<"/", "d">>, <<"/", "d", "/", "s">>, <<"/", "d", "2">>}

RegularFiles == {<<"/", "f">>}

\* the spellings of a path argument: absolute ones, and relative ones that
\* name the same places from the working directory
AbsoluteSpellings ==
  Directories \cup RegularFiles
    \cup {<<"/", "m">>, <<"/", "d", "/", "m">>, <<"/", "d", "2", "/", "m">>}

RelativeSpellings ==
  {<<"d">>, <<"d", "/", "s">>, <<"d", "2">>, <<"f">>, <<"m">>,
   <<"d", "/", "m">>}

Spellings == AbsoluteSpellings \cup RelativeSpellings

\* Path.resolve(): an absolute path is itself, a relative one is taken from
\* the working directory
resolve(path) == IF path[1] = "/" THEN path ELSE <<"/">> \o path

\* Path.exists() and Path.is_dir()
exists(path) == resolve(path) \in Directories \cup RegularFiles

is_dir(path) == resolve(path) \in Directories

\* str.startswith
startswith(string, prefix) == IsPrefix(prefix, string)

NotValidated == [valid |-> "none", message |-> "none"]

\* BackupManager.analyze_paths; valid and message are the pair it returns
analyze_paths(source, dest) ==
  IF ~exists(source)
    THEN [valid |-> FALSE, message |-> "Source path does not exist"]
  ELSE IF ~is_dir(source)
    THEN [valid |-> FALSE, message |-> "Source path must be a directory"]
  ELSE IF exists(dest) /\ ~is_dir(dest)
    THEN [valid |-> FALSE, message |-> "Destination path must be a directory"]
  ELSE IF resolve(source) = resolve(dest)
    THEN [valid |-> FALSE,
          message |-> "Source and destination paths cannot be the same"]
  ELSE IF startswith(dest, source)
    THEN [valid |-> FALSE,
          message |-> "Destination cannot be a subdirectory of source"]
  ELSE [valid |-> TRUE, message |-> "Paths validated successfully"]

PathsInit ==
  /\ source_path \in Spellings
  /\ dest_path \in Spellings
  /\ validated = NotValidated

PathsIdle ==
  /\ source_path = <<"/">>
  /\ dest_path = <<"/">>
  /\ validated = NotValidated

AnalyzePaths ==
  /\ validated = NotValidated
  /\ validated' = analyze_paths(source_path, dest_path)
  /\ UNCHANGED <<source_path, dest_path>>

\* --------------------------- BackupManager.analyze_differences, one call
\* One call of analyze_differences on a BackupManager with exclude_patterns
\* set, next to FileAnalyzer on the inventories of the same two trees.

VARIABLES scan_source, scan_dest, exclude_patterns, scan_differences

scan_vars == <<scan_source, scan_dest, exclude_patterns, scan_differences>>

\* trees of a.txt and b.txt
ScanTrees(trees) == {t \in trees : ~t[ReportName].exists}

NotScanned == [to_copy |-> <<"?">>, to_update |-> <<"?">>, to_delete |-> <<"?">>]

\* FileAnalyzer.get_files_info: relpath -> {size, mtime} of the files not
\* excluded
get_files_info(tree, excluded) ==
  [p \in {q \in Paths : tree[q].exists /\ q \notin excluded} |->
     Info(tree[p].size, tree[p].mtime)]

ScanInit ==
  /\ scan_source \in ScanTrees(SourceTrees)
  /\ scan_dest \in ScanTrees(DestTrees)
  /\ exclude_patterns \in SUBSET Paths
  /\ scan_differences = NotScanned

ScanIdle ==
  /\ scan_source = [p \in AllPaths |-> Absent]
  /\ scan_dest = [p \in AllPaths |-> Absent]
  /\ exclude_patterns = {}
  /\ scan_differences = NotScanned

AnalyzeDifferences ==
  /\ scan_differences = NotScanned
  /\ scan_differences' =
       analyze_differences_excluding(scan_source, scan_dest, TRUE, TRUE,
                                     exclude_patterns)
  /\ UNCHANGED <<scan_source, scan_dest, exclude_patterns>>

\* ------------------------------------------- FileHandler.delete_path
\* delete_path(path) on a directory. The entries below path are named by
\* their parts relative to it:
\*   a, z   files             s      a directory
\*   s/b    a file            s/u    a directory         s/u/c   a file
\* and every one of them is writable.

VARIABLES del_tree, del_items, del_root, del_pc, del_result

delete_vars == <<del_tree, del_items, del_root, del_pc, del_result>>

Entries ==
  {<<"a">>, <<"z">>, <<"s">>, <<"s", "b">>, <<"s", "u">>, <<"s", "u", "c">>}

EntryDirs == {<<"s">>, <<"s", "u">>}

\* the directory trees: with an entry, the directories above it
EntryTrees ==
  {t \in SUBSET Entries :
     \A e \in t : Len(e) > 1 => SubSeq(e, 1, Len(e) - 1) \in t}

\* the entries directly inside a directory of the tree
Content_of(dir, tree) ==
  {e \in tree : Len(e) = Len(dir) + 1 /\ SubSeq(e, 1, Len(dir)) = dir}

\* path.rglob('*'): every entry once, a directory before what it holds; the
\* order among the entries of one directory is the file system's
rglob(tree) ==
  {items \in [1..Cardinality(tree) -> tree] :
     /\ \A i, j \in 1..Cardinality(tree) : items[i] = items[j] => i = j
     /\ \A i, j \in 1..Cardinality(tree) :
          (Len(items[i]) < Len(items[j])
             /\ SubSeq(items[j], 1, Len(items[i])) = items[i]) => i < j}

DeleteInit ==
  /\ del_tree \in EntryTrees
  /\ del_items \in rglob(del_tree)
  /\ del_root = TRUE
  /\ del_pc = "loop"
  /\ del_result = "none"

DeleteIdle ==
  /\ del_tree = {}
  /\ del_items = <<>>
  /\ del_root = TRUE
  /\ del_pc = "loop"
  /\ del_result = "none"

\* one round of the loop: item.unlink() for a file; item.rmdir() for a
\* directory, which raises OSError when the directory is not empty, and the
\* handler returns (False, message)
DeleteItem ==
  /\ del_pc = "loop"
  /\ del_items # <<>>
  /\ LET item == Head(del_items) IN
       IF item \in EntryDirs /\ Content_of(item, del_tree) # {}
         THEN /\ del_pc' = "returned"
              /\ del_result' = "false"
              /\ UNCHANGED <<del_tree, del_items>>
         ELSE /\ del_tree' = del_tree \ {item}
              /\ del_items' = Tail(del_items)
              /\ UNCHANGED <<del_pc, del_result>>
  /\ UNCHANGED del_root

\* after the loop, which has removed every entry: path.rmdir() and
\* return (True, message)
DeleteRoot ==
  /\ del_pc = "loop"
  /\ del_items = <<>>
  /\ del_root' = FALSE
  /\ del_result' = "true"
  /\ del_pc' = "returned"
  /\ UNCHANGED <<del_tree, del_items>>

\* ------------------------------------------- MainWindow and its workers
\* The handlers of MainWindow run on the GUI thread, one at a time, except
\* that scan_finished waits inside dialog.exec(), where the event loop keeps
\* delivering the tray's signals and the workers' finished signals. A worker
\* thread works on the shared BackupManager from start() until it emits
\* finished at the end of run().

VARIABLES
  scanning,        \* MainWindow.scanning
  backing_up,      \* MainWindow.backing_up
  auto_mode,       \* the auto_mode checkbox
  start_enabled,   \* start_button.isEnabled(), set by update_ui_state
  scan_threads,    \* ScanThreads whose run() has not ended
  backup_threads,  \* BackupThreads whose run() has not ended
  signals,         \* finished signals emitted and not yet delivered
  dialogs,         \* scan_finished calls waiting in dialog.exec()
  starts           \* worker threads started so far

gui_vars ==
  <<scanning, backing_up, auto_mode, start_enabled, scan_threads,
    backup_threads, signals, dialogs, starts>>

\* worker threads started in one behaviour
MaxStarts == 3

GuiInit ==
  /\ scanning = FALSE
  /\ backing_up = FALSE
  /\ auto_mode \in BOOLEAN
  /\ start_enabled = TRUE
  /\ scan_threads = 0
  /\ backup_threads = 0
  /\ signals = <<>>
  /\ dialogs = 0
  /\ starts = 0

GuiIdle ==
  /\ scanning = FALSE
  /\ backing_up = FALSE
  /\ auto_mode = FALSE
  /\ start_enabled = TRUE
  /\ scan_threads = 0
  /\ backup_threads = 0
  /\ signals = <<>>
  /\ dialogs = 0
  /\ starts = 0

\* update_ui_state: enabled = not (scanning or backing_up)
update_ui_state(scan, backup) == ~(scan \/ backup)

\* start_backup past its guard: scanning = True, update_ui_state, a new
\* ScanThread is started
start_backup ==
  /\ ~(scanning \/ backing_up)
  /\ starts < MaxStarts
  /\ scanning' = TRUE
  /\ start_enabled' = update_ui_state(TRUE, backing_up)
  /\ scan_threads' = scan_threads + 1
  /\ starts' = starts + 1
  /\ UNCHANGED <<backing_up, auto_mode, backup_threads, signals, dialogs>>

\* the start button: enabled, and not behind a modal dialog
StartButton ==
  /\ start_enabled
  /\ dialogs = 0
  /\ start_backup

\* start_backup_from_tray: the tray action is always enabled
StartFromTray ==
  /\ ~scanning /\ ~backing_up
  /\ start_backup

\* ScanThread.run ends: finished(success, message, differences) is emitted
ScanThreadEnds ==
  /\ scan_threads > 0
  /\ scan_threads' = scan_threads - 1
  /\ \E success \in BOOLEAN :
       signals' = Append(signals, [from |-> "scan", success |-> success])
  /\ UNCHANGED <<scanning, backing_up, auto_mode, start_enabled,
                 backup_threads, dialogs, starts>>

\* the tail of scan_finished: backing_up = True, update_ui_state, a new
\* BackupThread is started
start_backup_thread ==
  /\ starts < MaxStarts
  /\ backing_up' = TRUE
  /\ backup_threads' = backup_threads + 1
  /\ starts' = starts + 1

\* scan_finished up to dialog.exec(), or to its end when no dialog is shown
ScanFinished ==
  /\ signals # <<>>
  /\ Head(signals).from = "scan"
  /\ signals' = Tail(signals)
  /\ scanning' = FALSE
  /\ IF ~Head(signals).success
       THEN /\ start_enabled' = update_ui_state(FALSE, backing_up)
            /\ UNCHANGED <<backing_up, backup_threads, dialogs, starts>>
     ELSE IF ~auto_mode
       THEN /\ dialogs' = dialogs + 1
            /\ UNCHANGED <<backing_up, start_enabled, backup_threads, starts>>
     ELSE /\ start_backup_thread
          /\ start_enabled' = update_ui_state(FALSE, TRUE)
          /\ UNCHANGED dialogs
  /\ UNCHANGED <<auto_mode, scan_threads>>

\* dialog.exec() returns Accepted: scan_finished goes on to start the backup
DialogAccepted ==
  /\ dialogs > 0
  /\ dialogs' = dialogs - 1
  /\ start_backup_thread
  /\ start_enabled' = update_ui_state(scanning, TRUE)
  /\ UNCHANGED <<scanning, auto_mode, scan_threads, signals>>

\* dialog.exec() returns Rejected: update_ui_state and return
DialogRejected ==
  /\ dialogs > 0
  /\ dialogs' = dialogs - 1
  /\ start_enabled' = update_ui_state(scanning, backing_up)
  /\ UNCHANGED <<scanning, backing_up, auto_mode, scan_threads,
                 backup_threads, signals, starts>>

\* BackupThread.run ends: finished(success, message) is emitted
BackupThreadEnds ==
  /\ backup_threads > 0
  /\ backup_threads' = backup_threads - 1
  /\ \E success \in BOOLEAN :
       signals' = Append(signals, [from |-> "backup", success |-> success])
  /\ UNCHANGED <<scanning, backing_up, auto_mode, start_enabled,
                 scan_threads, dialogs, starts>>

\* backup_finished: backing_up = False, update_ui_state
BackupFinished ==
  /\ signals # <<>>
  /\ Head(signals).from = "backup"
  /\ signals' = Tail(signals)
  /\ backing_up' = FALSE
  /\ start_enabled' = update_ui_state(scanning, FALSE)
  /\ UNCHANGED <<scanning, auto_mode, scan_threads, backup_threads, dialogs,
                 starts>>

\* cancel_backup answered Yes. While scanning: scan_thread.terminate() and
\* wait() end the ScanThread if it still runs, scanning = False. Otherwise:
\* backup_manager.stop() and backup_thread.wait(), after which that
\* BackupThread has emitted finished.
CancelBackup ==
  /\ scanning \/ backing_up
  /\ IF scanning
       THEN /\ scan_threads' = IF scan_threads > 0 THEN scan_threads - 1 ELSE 0
            /\ scanning' = FALSE
            /\ start_enabled' = update_ui_state(FALSE, backing_up)
            /\ UNCHANGED <<backup_threads, signals>>
       ELSE /\ IF backup_threads > 0
                 THEN /\ backup_threads' = backup_threads - 1
                      /\ signals' = Append(signals,
                                      [from |-> "backup", success |-> FALSE])
                 ELSE UNCHANGED <<backup_threads, signals>>
            /\ start_enabled' = update_ui_state(scanning, backing_up)
            /\ UNCHANGED <<scanning, scan_threads>>
  /\ UNCHANGED <<backing_up, auto_mode, dialogs, starts>>

\* --------------------------------- prepare_backup: the free-space check
\* The check of lines 65-80 alone, for paths that analyze_paths accepted. The
\* sizes of the source files, the excluded paths and the free space of the
\* volumes are inputs. Free space is measured at dest_path.parent, which is
\* on another volume than dest_path when dest_path is a mount point, and
\* which need not exist when dest_path does not exist.

VARIABLES
  space_sizes,      \* st_size of each source file
  space_excluded,   \* the source files matched by an exclusion pattern
  dest_is_mount,    \* dest_path is the mount point of a volume
  parent_exists,    \* dest_path.parent exists
  dest_volume_free, \* free bytes of the volume that holds dest_path
  parent_volume_free, \* free bytes of the volume that holds dest_path.parent
  space_result      \* "none" | "insufficient" | "error" | "analysis"

space_vars ==
  <<space_sizes, space_excluded, dest_is_mount, parent_exists,
    dest_volume_free, parent_volume_free, space_result>>

\* free bytes of a volume
MaxFree == 4

\* sum(f.stat().st_size for f in rglob('*') if f.is_file() and not
\* any(f.match(p) for p in exclude_patterns))
source_size(sizes, excluded) ==
  LET RECURSIVE Sum(_)
      Sum(paths) ==
        IF paths = <<>> THEN 0
        ELSE (IF Head(paths) \in excluded THEN 0 ELSE sizes[Head(paths)])
             + Sum(Tail(paths))
  IN Sum(SelectSeq(RglobOrder, LAMBDA p : p \in DOMAIN sizes))

\* get_free_space(self.dest_path.parent): psutil.disk_usage(parent).free
get_free_space == parent_volume_free

SpaceInit ==
  /\ space_sizes \in [Paths -> 0..MaxSize]
  /\ space_excluded \in SUBSET Paths
  /\ dest_is_mount \in BOOLEAN
  /\ parent_exists \in {e \in BOOLEAN : dest_is_mount => e}
  /\ dest_volume_free \in 0..MaxFree
  /\ parent_volume_free \in
       {f \in 0..MaxFree : ~dest_is_mount => f = dest_volume_free}
  /\ space_result = "none"

SpaceIdle ==
  /\ space_sizes = [p \in Paths |-> 0]
  /\ space_excluded = {}
  /\ dest_is_mount = FALSE
  /\ parent_exists = TRUE
  /\ dest_volume_free = 0
  /\ parent_volume_free = 0
  /\ space_result = "none"

\* lines 65-80: disk_usage raises for a missing directory, and any exception
\* returns (False, str(e), {}); dest_free < source_size returns
\* (False, "Insufficient space...", {}); otherwise the analysis follows
check_space(sizes, excluded) ==
  IF ~parent_exists THEN "error"
  ELSE IF get_free_space < source_size(sizes, excluded) THEN "insufficient"
  ELSE "analysis"

CheckSpace ==
  /\ space_result = "none"
  /\ space_result' = check_space(space_sizes, space_excluded)
  /\ UNCHANGED <<space_sizes, space_excluded, dest_is_mount, parent_exists,
                 dest_volume_free, parent_volume_free>>

\* ------------------------------------------------ FileHandler.copy_file
\* One call of copy_file(src_path, dest_path), byte by byte. The two files,
\* what os.access reports of them and the faults of the file system are
\* inputs. A write that fails may have put a part of its chunk on the disk
\* (a short write before the error).

VARIABLES
  cp_src,      \* the source file
  cp_dst,      \* the destination file
  cp_old,      \* the destination file when copy_file was called
  cp_pc,       \* "call" | "opened" | "returned"
  cp_chunks,   \* calls of dest.write(chunk) that returned
  cp_result,   \* copy_file's return value: "none" | "true" | "false"
  cp_message,  \* the message returned with it
  cp_fault     \* where the file system failed: "none" | "open" | "read" |
               \* "write" | "utime"

copy_vars ==
  <<cp_src, cp_dst, cp_old, cp_pc, cp_chunks, cp_result, cp_message, cp_fault>>

\* FileHandler.CHUNK_SIZE, in bytes
CHUNK_SIZE == 2

\* bytes of the largest source file
MaxBytes == 4

NoFile ==
  [exists |-> FALSE, access |-> FALSE, content |-> <<>>, mtime |-> 0]

\* a file: its bytes, its mtime, and what os.access(path, R_OK or W_OK) says
Bytes(n) == [i \in 1..n |-> i]

CopySources ==
  {NoFile} \cup
  {[exists |-> TRUE, access |-> r, content |-> Bytes(n), mtime |-> 0] :
     r \in BOOLEAN, n \in 0..MaxBytes}

CopyDests ==
  {NoFile} \cup
  {[exists |-> TRUE, access |-> w, content |-> c, mtime |-> t] :
     w \in BOOLEAN, c \in {<<>>, Bytes(1), <<0, 0, 0>>}, t \in {0, 1}}

CopyInit ==
  /\ cp_src \in CopySources
  /\ cp_dst \in CopyDests
  /\ cp_old = cp_dst
  /\ cp_pc = "call"
  /\ cp_chunks = 0
  /\ cp_result = "none"
  /\ cp_message = "none"
  /\ cp_fault = "none"

CopyIdle ==
  /\ cp_src = NoFile
  /\ cp_dst = NoFile
  /\ cp_old = NoFile
  /\ cp_pc = "call"
  /\ cp_chunks = 0
  /\ cp_result = "none"
  /\ cp_message = "none"
  /\ cp_fault = "none"

\* a verification that leaves out the destination
verify_source(src, dst) ==
  IF ~src.exists THEN "Source file does not exist"
  ELSE IF ~src.access THEN "Source file is not readable"
  ELSE "ok"

\* lines 24-35: the FileOperationError raised before anything is opened
verify(src, dst) ==
  IF ~src.exists THEN "Source file does not exist"
  ELSE IF ~src.access THEN "Source file is not readable"
  ELSE IF dst.exists /\ ~dst.access THEN "Destination file is not writable"
  ELSE "ok"

\* the two except clauses: a FileOperationError returns (False, str(e)), any
\* other Exception (False, "Unexpected error: ...")
Returns(msg, fault) ==
  /\ cp_pc' = "returned"
  /\ cp_result' = "false"
  /\ cp_message' = msg
  /\ cp_fault' = fault

\* a destination opened for appending
open_ab(old) ==
  [exists |-> TRUE, access |-> TRUE, content |-> old.content, mtime |-> Now]

\* dest_path.open('wb'): the file is created, or truncated
open_wb(old) ==
  [exists |-> TRUE, access |-> TRUE, content |-> <<>>, mtime |-> Now]

\* copy_file up to the with statement: the verification, mkdir of the parent,
\* stat, and the two opens, the source first. A failure of mkdir, stat or an
\* open is an exception raised before the destination is created or
\* truncated.
CopyOpen ==
  /\ cp_pc = "call"
  /\ IF verify(cp_src, cp_dst) # "ok"
       THEN /\ Returns(verify(cp_src, cp_dst), "none")
            /\ UNCHANGED cp_dst
       ELSE \/ /\ Returns("Unexpected error", "open")
               /\ UNCHANGED cp_dst
            \/ /\ cp_dst' = open_wb(cp_dst)
               /\ cp_pc' = "opened"
               /\ UNCHANGED <<cp_result, cp_message, cp_fault>>
  /\ UNCHANGED <<cp_src, cp_old, cp_chunks>>

\* the chunk that src.read(CHUNK_SIZE) returns after k chunks
Chunk(content, k) ==
  SubSeq(content, k * CHUNK_SIZE + 1,
         IF (k + 1) * CHUNK_SIZE < Len(content)
           THEN (k + 1) * CHUNK_SIZE ELSE Len(content))

\* one round of the loop with a chunk read: dest.write(chunk) returns; or
\* src.read raises; or dest.write raises with n bytes of the chunk written
CopyWrite ==
  /\ cp_pc = "opened"
  /\ Chunk(cp_src.content, cp_chunks) # <<>>
  /\ LET chunk == Chunk(cp_src.content, cp_chunks) IN
       \/ /\ cp_dst' = [cp_dst EXCEPT !.content = @ \o chunk]
          /\ cp_chunks' = cp_chunks + 1
          /\ UNCHANGED <<cp_pc, cp_result, cp_message, cp_fault>>
       \/ /\ Returns("Unexpected error", "read")
          /\ UNCHANGED <<cp_dst, cp_chunks>>
       \/ /\ \E n \in 0..(Len(chunk) - 1) :
               cp_dst' = [cp_dst EXCEPT !.content = @ \o SubSeq(chunk, 1, n)]
          /\ Returns("Unexpected error", "write")
          /\ UNCHANGED cp_chunks
  /\ UNCHANGED <<cp_src, cp_old>>

\* the read that returns no chunk: the files are closed, then
\* os.utime(dest_path, (st_atime, st_mtime)) of the source, which may raise
CopyClose ==
  /\ cp_pc = "opened"
  /\ Chunk(cp_src.content, cp_chunks) = <<>>
  /\ \/ /\ cp_dst' = [cp_dst EXCEPT !.mtime = cp_src.mtime]
        /\ cp_pc' = "returned"
        /\ cp_result' = "true"
        /\ cp_message' = "File copied successfully"
        /\ UNCHANGED cp_fault
     \/ /\ Returns("Unexpected error", "utime")
        /\ UNCHANGED cp_dst
  /\ UNCHANGED <<cp_src, cp_old, cp_chunks>>

\* ------------------------------- stop() against the start of a run
\* The controlling thread and the worker thread from BackupThread.start() to
\* the return of perform_backup, with nothing but the flag, the batch and the
\* cancellation checks. stop() is one assignment; it may come before the
\* worker has executed "self._running = True", between that assignment and
\* the first check, or later.

VARIABLES
  st_running,  \* BackupManager._running
  st_pc,       \* the worker: "started" | "check" | "process" | "returned"
  st_batch,    \* paths of the differences passed to perform_backup
  st_done,     \* paths processed
  st_result,   \* perform_backup's return value: "none" | "true" | "false"
  st_stop      \* when stop() was called: "no" | "before_entry" |
               \* "before_first_check" | "later"

start_vars == <<st_running, st_pc, st_batch, st_done, st_result, st_stop>>

\* paths of the largest batch
MaxBatch == 5

\* the worker has been started; the flag is True in a new manager and False
\* after an earlier stop()
StartInit ==
  /\ st_running \in BOOLEAN
  /\ st_pc = "started"
  /\ st_batch \in 1..MaxBatch
  /\ st_done = 0
  /\ st_result = "none"
  /\ st_stop = "no"

StartIdle ==
  /\ st_running = TRUE
  /\ st_pc = "started"
  /\ st_batch = 1
  /\ st_done = 0
  /\ st_result = "none"
  /\ st_stop = "no"

\* perform_backup, line 267: self._running = True
reset_flag(run) == TRUE

\* the worker enters perform_backup: the flag is set, the destination created
EnterPerform ==
  /\ st_pc = "started"
  /\ st_running' = reset_flag(st_running)
  /\ st_pc' = "check"
  /\ UNCHANGED <<st_batch, st_done, st_result, st_stop>>

\* "if not self._running: return False" at the head of an iteration, or the
\* end of the loops: return True
CheckRunning ==
  /\ st_pc = "check"
  /\ IF st_done = st_batch
       THEN st_pc' = "returned" /\ st_result' = "true"
     ELSE IF ~st_running
       THEN st_pc' = "returned" /\ st_result' = "false"
     ELSE st_pc' = "process" /\ UNCHANGED st_result
  /\ UNCHANGED <<st_running, st_batch, st_done, st_stop>>

\* the body of an iteration
ProcessPath ==
  /\ st_pc = "process"
  /\ st_done' = st_done + 1
  /\ st_pc' = "check"
  /\ UNCHANGED <<st_running, st_batch, st_result, st_stop>>

\* BackupManager.stop() from the controlling thread (cancel_backup)
StopCalled ==
  /\ st_stop = "no"
  /\ st_pc # "returned"
  /\ st_running' = FALSE
  /\ st_stop' = IF st_pc = "started" THEN "before_entry"
                ELSE IF st_pc = "check" /\ st_done = 0 THEN "before_first_check"
                ELSE "later"
  /\ UNCHANGED <<st_pc, st_batch, st_done, st_result>>

\* --------------------------------------- a worker draining one FileQueue
\* A FileQueue to which operations of distinct paths are added, in any order
\* and with any priorities, and, once every parent directory of an added
\* path is an added path, a worker that calls get_next_operation and then
\* complete_operation on the path of the operation returned, until None is
\* returned.

VARIABLES
  w_enqueued,     \* the paths of the operations added
  w_queue,        \* FileQueue.queue
  w_in_progress,  \* FileQueue.in_progress
  w_completed,    \* FileQueue.completed
  w_pc,           \* "adding", then the worker: "get" | "loop" |
                  \* "complete" | "done"
  w_returned,     \* the operation the last get_next_operation returned
  w_putbacks      \* rounds of get_next_operation that put an operation back

worker_vars ==
  <<w_enqueued, w_queue, w_in_progress, w_completed, w_pc, w_returned,
    w_putbacks>>

\* the largest difference between two priorities at the start, in tenths
MaxGap == 2

WorkerPaths == {<<"a">>, <<"a", "b">>, <<"a", "b", "c">>, <<"d">>}

\* every parent directory of a path of S is a path of S
Closed(S) ==
  \A p \in S : \A i \in 1..(Len(p) - 1) : add_dependencies(p)[i] \in S

WorkerInit ==
  /\ w_enqueued = {}
  /\ w_queue = <<>>
  /\ w_in_progress = EmptyDict
  /\ w_completed = EmptyDict
  /\ w_pc = "adding"
  /\ w_returned = NotCalled
  /\ w_putbacks = 0

\* add_operation for a path not added before; the priority stands for what
\* _calculate_priority returns for the size and the type of the operation
WorkerAdd ==
  /\ w_pc = "adding"
  /\ \E path \in WorkerPaths \ w_enqueued, prio \in 0..MaxGap :
       /\ w_queue' =
            heappush(w_queue,
                     [id |-> Len(w_queue) + 1, path |-> path,
                      operation |-> COPY, size |-> 0, priority |-> prio,
                      dependencies |-> add_dependencies(path)])
       /\ w_enqueued' = w_enqueued \cup {path}
  /\ UNCHANGED <<w_in_progress, w_completed, w_pc, w_returned, w_putbacks>>

\* one round of the loop of get_next_operation, which the worker calls when
\* the last operation is completed: None is returned for an empty queue;
\* the operation popped is returned and entered in in_progress when its
\* dependencies are completed, and put back with a lower priority otherwise
WorkerRound ==
  /\ w_pc \in {"get", "loop"} \/ (w_pc = "adding" /\ Closed(w_enqueued))
  /\ IF w_queue = <<>>
       THEN /\ w_pc' = "done"
            /\ w_returned' = [kind |-> "None"]
            /\ UNCHANGED <<w_queue, w_in_progress, w_putbacks>>
     ELSE \E popped \in {heappop(w_queue)} :
            IF deps_completed(popped[1], w_completed)
              THEN /\ w_pc' = "complete"
                   /\ w_queue' = popped[2]
                   /\ w_returned' = [kind |-> "operation",
                                     operation |-> popped[1]]
                   /\ w_in_progress' =
                        Put(w_in_progress, popped[1].path, popped[1])
                   /\ UNCHANGED w_putbacks
              ELSE /\ w_pc' = "loop"
                   /\ w_queue' = heappush(popped[2], Decayed(popped[1]))
                   /\ w_putbacks' =
                        IF w_putbacks < MaxSpins THEN w_putbacks + 1
                        ELSE w_putbacks
                   /\ UNCHANGED <<w_in_progress, w_returned>>
  /\ UNCHANGED <<w_enqueued, w_completed>>

\* the worker calls complete_operation(operation.path)
WorkerComplete ==
  /\ w_pc = "complete"
  /\ LET path == w_returned.operation.path IN
       IF path \in DOMAIN w_in_progress
         THEN /\ w_completed' = Put(w_completed, path, w_in_progress[path])
              /\ w_in_progress' = Pop(w_in_progress, path)
         ELSE UNCHANGED <<w_in_progress, w_completed>>
  /\ w_pc' = "get"
  /\ UNCHANGED <<w_enqueued, w_queue, w_returned, w_putbacks>>

\* --------------------------------------------- MemoryManager and its lock
\* One MemoryManager used from the GUI thread, its only user.  Memory is
\* counted in tenths of memory_limit, so the thresholds 0.8 and 0.9 are 8
\* and 9 tenths.  _lock is a threading.Lock: it has no owner and no count,
\* acquire() waits until it is free whoever holds it.  A `with self._lock:`
\* is an acquire (LockAcquire), the block, and a release at its end.

VARIABLES
  mm_lock,      \* "free", or the method whose `with` holds _lock
  mm_caches,    \* _caches: name -> [len of the dict, max_size]
  mm_last_gc,   \* _last_gc_time
  mm_rss,       \* current_usage of the running check_memory
  mm_pc,        \* the GUI thread: "idle" | "acquire_check" | "checking" |
                \* "acquire_clean" | "cleaning" | "critical_test"
  mm_result     \* what the last check_memory gave: "none" | "True" |
                \* "False" | "RuntimeError"

memory_vars == <<mm_lock, mm_caches, mm_last_gc, mm_rss, mm_pc, mm_result>>

memory_limit == 10
WARNING_THRESHOLD == 8
CRITICAL_THRESHOLD == 9
CACHE_CLEANUP_RATIO == 2
GC_CHECK_INTERVAL == 1

MaxRss == 11
MaxTime == 2
MaxCacheLen == 3
CacheNames == {"backup_cache", "other_cache"}
CacheSizes == {1, 2}

\* rss / memory_limit > threshold, both sides times ten
usage_above(rss, threshold) == rss * 10 > threshold * memory_limit

MemoryInit ==
  /\ mm_lock = "free"
  /\ mm_caches = <<>>
  /\ mm_last_gc = 0
  /\ mm_rss = 0
  /\ mm_pc = "idle"
  /\ mm_result = "none"

\* _clean_cache: a cache longer than max_size loses int(max_size * 0.2)
\* items, as far as it has them
clean_cache(cache) ==
  IF cache.len > cache.max_size
  THEN LET remove_count == (cache.max_size * CACHE_CLEANUP_RATIO) \div 10
       IN  [cache EXCEPT !.len = IF remove_count > cache.len THEN 0
                                 ELSE cache.len - remove_count]
  ELSE cache

\* register_cache(name, cache_dict, max_size), the dict holding len items
RegisterCache ==
  /\ mm_pc = "idle"
  /\ mm_lock = "free"
  /\ \E name \in CacheNames, len \in 0..MaxCacheLen, max_size \in CacheSizes :
       mm_caches' = [n \in DOMAIN mm_caches \cup {name} |->
                       IF n = name THEN [len |-> len, max_size |-> max_size]
                       ELSE mm_caches[n]]
  /\ UNCHANGED <<mm_lock, mm_last_gc, mm_rss, mm_pc, mm_result>>

\* unregister_cache(name)
UnregisterCache ==
  /\ mm_pc = "idle"
  /\ mm_lock = "free"
  /\ \E name \in CacheNames :
       mm_caches' = [n \in DOMAIN mm_caches \ {name} |-> mm_caches[n]]
  /\ UNCHANGED <<mm_lock, mm_last_gc, mm_rss, mm_pc, mm_result>>

\* clear_all_caches()
ClearAllCaches ==
  /\ mm_pc = "idle"
  /\ mm_lock = "free"
  /\ mm_caches' = [n \in DOMAIN mm_caches |-> [mm_caches[n] EXCEPT !.len = 0]]
  /\ UNCHANGED <<mm_lock, mm_last_gc, mm_rss, mm_pc, mm_result>>

\* check_system_resources calls check_memory, which comes to its `with`
CheckMemoryCalled ==
  /\ mm_pc = "idle"
  /\ mm_pc' = "acquire_check"
  /\ mm_result' = "none"
  /\ UNCHANGED <<mm_lock, mm_caches, mm_last_gc, mm_rss>>

\* Lock.acquire() of the `with` the thread stands at: taken when free
LockAcquire ==
  /\ mm_pc \in {"acquire_check", "acquire_clean"}
  /\ mm_lock = "free"
  /\ mm_lock' = IF mm_pc = "acquire_check" THEN "check_memory"
                ELSE "_clean_all_caches"
  /\ mm_pc' = IF mm_pc = "acquire_check" THEN "checking" ELSE "cleaning"
  /\ UNCHANGED <<mm_caches, mm_last_gc, mm_rss, mm_result>>

\* the code the thread runs next inside check_memory:
\*   "checking": rss is read, the collector runs when it is due, and above
\*       the warning threshold _clean_all_caches is called;
\*   "cleaning": the block of _clean_all_caches and the release at its end;
\*   "critical_test": the return value, and the release at the end of
\*       check_memory's block, which raises RuntimeError on a free Lock.
CheckMemoryStep ==
  CASE mm_pc = "checking" ->
         \E rss \in 0..MaxRss, current_time \in mm_last_gc..MaxTime :
           /\ mm_rss' = rss
           /\ mm_last_gc' = IF current_time - mm_last_gc > GC_CHECK_INTERVAL
                            THEN current_time ELSE mm_last_gc
           /\ mm_pc' = IF usage_above(rss, WARNING_THRESHOLD)
                       THEN "acquire_clean" ELSE "critical_test"
           /\ UNCHANGED <<mm_lock, mm_caches, mm_result>>
    [] mm_pc = "cleaning" ->
         /\ mm_caches' = [n \in DOMAIN mm_caches |-> clean_cache(mm_caches[n])]
         /\ mm_lock' = "free"
         /\ mm_pc' = "critical_test"
         /\ UNCHANGED <<mm_last_gc, mm_rss, mm_result>>
    [] mm_pc = "critical_test" ->
         /\ mm_result' = IF mm_lock = "free" THEN "RuntimeError"
                         ELSE IF usage_above(mm_rss, CRITICAL_THRESHOLD)
                         THEN "False" ELSE "True"
         /\ mm_lock' = "free"
         /\ mm_pc' = "idle"
         /\ UNCHANGED <<mm_caches, mm_last_gc, mm_rss>>
    [] OTHER -> FALSE

vars ==
  <<backup_vars, analyzer_vars, queue_vars, priority_vars, cleanup_vars,
    deps_vars, paths_vars, scan_vars, delete_vars, gui_vars, space_vars,
    copy_vars, start_vars, worker_vars, memory_vars>>

BackupIdle ==
  /\ source_tree = [p \in AllPaths |-> Absent]
  /\ dest_tree = [p \in AllPaths |-> Absent]
  /\ dest_root = FALSE
  /\ running = TRUE
  /\ report_data = NewReport
  /\ clock = 0
  /\ pc = "idle"
  /\ differences = NoDifferences
  /\ message = "none"
  /\ pos = EndPos
  /\ written = 0
  /\ result = "none"
  /\ callback = "none"
  /\ report_saved = [run |-> 0, end_time |-> 0]
  /\ faults = 0
  /\ ops = <<>>
  /\ stopped = "no"
  /\ pending_at_stop = FALSE
  /\ escaped = FALSE
  /\ stop_ever = FALSE
  /\ prev_clean = FALSE

\* the variables each specification leaves alone
not_backup_vars ==
  <<analyzer_vars, queue_vars, priority_vars, cleanup_vars, deps_vars,
    paths_vars, scan_vars, delete_vars, gui_vars, space_vars, copy_vars,
    start_vars, worker_vars, memory_vars>>

not_analyzer_vars ==
  <<backup_vars, queue_vars, priority_vars, cleanup_vars, deps_vars,
    paths_vars, scan_vars, delete_vars, gui_vars, space_vars, copy_vars,
    start_vars, worker_vars, memory_vars>>

not_queue_vars ==
  <<backup_vars, analyzer_vars, priority_vars, cleanup_vars, deps_vars,
    paths_vars, scan_vars, delete_vars, gui_vars, space_vars, copy_vars,
    start_vars, worker_vars, memory_vars>>

not_priority_vars ==
  <<backup_vars, analyzer_vars, queue_vars, cleanup_vars, deps_vars,
    paths_vars, scan_vars, delete_vars, gui_vars, space_vars, copy_vars,
    start_vars, worker_vars, memory_vars>>

not_cleanup_vars ==
  <<backup_vars, analyzer_vars, queue_vars, priority_vars, deps_vars,
    paths_vars, scan_vars, delete_vars, gui_vars, space_vars, copy_vars,
    start_vars, worker_vars, memory_vars>>

not_deps_vars ==
  <<backup_vars, analyzer_vars, queue_vars, priority_vars, cleanup_vars,
    paths_vars, scan_vars, delete_vars, gui_vars, space_vars, copy_vars,
    start_vars, worker_vars, memory_vars>>

not_paths_vars ==
  <<backup_vars, analyzer_vars, queue_vars, priority_vars, cleanup_vars,
    deps_vars, scan_vars, delete_vars, gui_vars, space_vars, copy_vars,
    start_vars, worker_vars, memory_vars>>

not_scan_vars ==
  <<backup_vars, analyzer_vars, queue_vars, priority_vars, cleanup_vars,
    deps_vars, paths_vars, delete_vars, gui_vars, space_vars, copy_vars,
    start_vars, worker_vars, memory_vars>>

not_delete_vars ==
  <<backup_vars, analyzer_vars, queue_vars, priority_vars, cleanup_vars,
    deps_vars, paths_vars, scan_vars, gui_vars, space_vars, copy_vars,
    start_vars, worker_vars, memory_vars>>

not_gui_vars ==
  <<backup_vars, analyzer_vars, queue_vars, priority_vars, cleanup_vars,
    deps_vars, paths_vars, scan_vars, delete_vars, space_vars, copy_vars,
    start_vars, worker_vars, memory_vars>>

not_space_vars ==
  <<backup_vars, analyzer_vars, queue_vars, priority_vars, cleanup_vars,
    deps_vars, paths_vars, scan_vars, delete_vars, gui_vars, copy_vars,
    start_vars, worker_vars, memory_vars>>

not_copy_vars ==
  <<backup_vars, analyzer_vars, queue_vars, priority_vars, cleanup_vars,
    deps_vars, paths_vars, scan_vars, delete_vars, gui_vars, space_vars,
    start_vars, worker_vars, memory_vars>>

not_start_vars ==
  <<backup_vars, analyzer_vars, queue_vars, priority_vars, cleanup_vars,
    deps_vars, paths_vars, scan_vars, delete_vars, gui_vars, space_vars,
    copy_vars, worker_vars, memory_vars>>

not_worker_vars ==
  <<backup_vars, analyzer_vars, queue_vars, priority_vars, cleanup_vars,
    deps_vars, paths_vars, scan_vars, delete_vars, gui_vars, space_vars,
    copy_vars, start_vars, memory_vars>>

not_memory_vars ==
  <<backup_vars, analyzer_vars, queue_vars, priority_vars, cleanup_vars,
    deps_vars, paths_vars, scan_vars, delete_vars, gui_vars, space_vars,
    copy_vars, start_vars, worker_vars>>

\* ---- Spec: one BackupManager on two trees
Init ==
  BackupInit /\ AnalyzerIdle /\ QueueInit /\ PriorityIdle /\ CleanupInit /\
  DepsIdle /\ PathsIdle /\ ScanIdle /\ DeleteIdle /\ GuiIdle /\ SpaceIdle /\
  CopyIdle /\ StartIdle /\ WorkerInit /\ MemoryInit

Next ==
  \/ Stop /\ UNCHANGED not_backup_vars
  \/ PrepareBackup /\ UNCHANGED not_backup_vars
  \/ PerformStart /\ UNCHANGED not_backup_vars
  \/ ReturnCancelled /\ UNCHANGED not_backup_vars
  \/ DeleteFile /\ UNCHANGED not_backup_vars
  \/ CopyBegin /\ UNCHANGED not_backup_vars
  \/ CopyChunk /\ UNCHANGED not_backup_vars
  \/ CopyDone /\ UNCHANGED not_backup_vars
  \/ PerformFinish /\ UNCHANGED not_backup_vars

Spec == Init /\ [][Next]_vars

\* ---- SpecAnalyzer: FileAnalyzer.analyze_differences on two inventories
InitAnalyzer ==
  BackupIdle /\ AnalyzerInit /\ QueueInit /\ PriorityIdle /\ CleanupInit /\
  DepsIdle /\ PathsIdle /\ ScanIdle /\ DeleteIdle /\ GuiIdle /\ SpaceIdle /\
  CopyIdle /\ StartIdle /\ WorkerInit /\ MemoryInit

NextAnalyzer == Analyze /\ UNCHANGED not_analyzer_vars

SpecAnalyzer == InitAnalyzer /\ [][NextAnalyzer]_vars

\* ---- SpecQueue: one FileQueue
InitQueue ==
  BackupIdle /\ AnalyzerIdle /\ QueueInit /\ PriorityIdle /\ CleanupInit /\
  DepsIdle /\ PathsIdle /\ ScanIdle /\ DeleteIdle /\ GuiIdle /\ SpaceIdle /\
  CopyIdle /\ StartIdle /\ WorkerInit /\ MemoryInit

NextQueue ==
  \/ AddOperation /\ UNCHANGED not_queue_vars
  \/ GetNextOperation /\ UNCHANGED not_queue_vars
  \/ CompleteOperation /\ UNCHANGED not_queue_vars

SpecQueue == InitQueue /\ [][NextQueue]_vars

\* ---- SpecPriority: one call of FileQueue._calculate_priority
InitPriority ==
  BackupIdle /\ AnalyzerIdle /\ QueueInit /\ PriorityInit /\ CleanupInit /\
  DepsIdle /\ PathsIdle /\ ScanIdle /\ DeleteIdle /\ GuiIdle /\ SpaceIdle /\
  CopyIdle /\ StartIdle /\ WorkerInit /\ MemoryInit

NextPriority == CalculatePriority /\ UNCHANGED not_priority_vars

SpecPriority == InitPriority /\ [][NextPriority]_vars

\* ---- SpecCleanup: the lengths of the collections of one FileQueue
InitCleanup ==
  BackupIdle /\ AnalyzerIdle /\ QueueInit /\ PriorityIdle /\ CleanupInit /\
  DepsIdle /\ PathsIdle /\ ScanIdle /\ DeleteIdle /\ GuiIdle /\ SpaceIdle /\
  CopyIdle /\ StartIdle /\ WorkerInit /\ MemoryInit

NextCleanup ==
  \/ CountedAdd /\ UNCHANGED not_cleanup_vars
  \/ CountedGet /\ UNCHANGED not_cleanup_vars
  \/ CountedComplete /\ UNCHANGED not_cleanup_vars

SpecCleanup == InitCleanup /\ [][NextCleanup]_vars

\* ---- SpecDeps: one call of FileQueue._add_dependencies
InitDeps ==
  BackupIdle /\ AnalyzerIdle /\ QueueInit /\ PriorityIdle /\ CleanupInit /\
  DepsInit /\ PathsIdle /\ ScanIdle /\ DeleteIdle /\ GuiIdle /\ SpaceIdle /\
  CopyIdle /\ StartIdle /\ WorkerInit /\ MemoryInit

NextDeps ==
  \/ DepsEnter /\ UNCHANGED not_deps_vars
  \/ DepsIterate /\ UNCHANGED not_deps_vars
  \/ DepsReturn /\ UNCHANGED not_deps_vars

SpecDeps == InitDeps /\ [][NextDeps]_vars

\* ---- SpecPaths: one call of BackupManager.analyze_paths
InitPaths ==
  BackupIdle /\ AnalyzerIdle /\ QueueInit /\ PriorityIdle /\ CleanupInit /\
  DepsIdle /\ PathsInit /\ ScanIdle /\ DeleteIdle /\ GuiIdle /\ SpaceIdle /\
  CopyIdle /\ StartIdle /\ WorkerInit /\ MemoryInit

NextPaths == AnalyzePaths /\ UNCHANGED not_paths_vars

SpecPaths == InitPaths /\ [][NextPaths]_vars

\* ---- SpecScan: one call of BackupManager.analyze_differences
InitScan ==
  BackupIdle /\ AnalyzerIdle /\ QueueInit /\ PriorityIdle /\ CleanupInit /\
  DepsIdle /\ PathsIdle /\ ScanInit /\ DeleteIdle /\ GuiIdle /\ SpaceIdle /\
  CopyIdle /\ StartIdle /\ WorkerInit /\ MemoryInit

NextScan == AnalyzeDifferences /\ UNCHANGED not_scan_vars

SpecScan == InitScan /\ [][NextScan]_vars

\* ---- SpecDelete: one call of FileHandler.delete_path on a directory
InitDelete ==
  BackupIdle /\ AnalyzerIdle /\ QueueInit /\ PriorityIdle /\ CleanupInit /\
  DepsIdle /\ PathsIdle /\ ScanIdle /\ DeleteInit /\ GuiIdle /\ SpaceIdle /\
  CopyIdle /\ StartIdle /\ WorkerInit /\ MemoryInit

NextDelete ==
  \/ DeleteItem /\ UNCHANGED not_delete_vars
  \/ DeleteRoot /\ UNCHANGED not_delete_vars

SpecDelete == InitDelete /\ [][NextDelete]_vars

\* ---- SpecGui: MainWindow, its ScanThread and BackupThread
InitGui ==
  BackupIdle /\ AnalyzerIdle /\ QueueInit /\ PriorityIdle /\ CleanupInit /\
  DepsIdle /\ PathsIdle /\ ScanIdle /\ DeleteIdle /\ GuiInit /\ SpaceIdle /\
  CopyIdle /\ StartIdle /\ WorkerInit /\ MemoryInit

NextGui ==
  \/ StartButton /\ UNCHANGED not_gui_vars
  \/ StartFromTray /\ UNCHANGED not_gui_vars
  \/ ScanThreadEnds /\ UNCHANGED not_gui_vars
  \/ ScanFinished /\ UNCHANGED not_gui_vars
  \/ DialogAccepted /\ UNCHANGED not_gui_vars
  \/ DialogRejected /\ UNCHANGED not_gui_vars
  \/ BackupThreadEnds /\ UNCHANGED not_gui_vars
  \/ BackupFinished /\ UNCHANGED not_gui_vars
  \/ CancelBackup /\ UNCHANGED not_gui_vars

SpecGui == InitGui /\ [][NextGui]_vars

\* ---- SpecSpace: prepare_backup's free-space check
InitSpace ==
  BackupIdle /\ AnalyzerIdle /\ QueueInit /\ PriorityIdle /\ CleanupInit /\
  DepsIdle /\ PathsIdle /\ ScanIdle /\ DeleteIdle /\ GuiIdle /\ SpaceInit /\
  CopyIdle /\ StartIdle /\ WorkerInit /\ MemoryInit

NextSpace == CheckSpace /\ UNCHANGED not_space_vars

SpecSpace == InitSpace /\ [][NextSpace]_vars

\* ---- SpecCopy: FileHandler.copy_file
InitCopy ==
  BackupIdle /\ AnalyzerIdle /\ QueueInit /\ PriorityIdle /\ CleanupInit /\
  DepsIdle /\ PathsIdle /\ ScanIdle /\ DeleteIdle /\ GuiIdle /\ SpaceIdle /\
  CopyInit /\ StartIdle /\ WorkerInit /\ MemoryInit

NextCopy ==
  \/ CopyOpen /\ UNCHANGED not_copy_vars
  \/ CopyWrite /\ UNCHANGED not_copy_vars
  \/ CopyClose /\ UNCHANGED not_copy_vars

SpecCopy == InitCopy /\ [][NextCopy]_vars

\* ---- SpecStart: stop() against the start of perform_backup
InitStart ==
  BackupIdle /\ AnalyzerIdle /\ QueueInit /\ PriorityIdle /\ CleanupInit /\
  DepsIdle /\ PathsIdle /\ ScanIdle /\ DeleteIdle /\ GuiIdle /\ SpaceIdle /\
  CopyIdle /\ StartInit /\ WorkerInit /\ MemoryInit

NextStart ==
  \/ EnterPerform /\ UNCHANGED not_start_vars
  \/ CheckRunning /\ UNCHANGED not_start_vars
  \/ ProcessPath /\ UNCHANGED not_start_vars
  \/ StopCalled /\ UNCHANGED not_start_vars

SpecStart == InitStart /\ [][NextStart]_vars

\* ---- SpecWorker: a worker draining one FileQueue
InitWorker ==
  BackupIdle /\ AnalyzerIdle /\ QueueInit /\ PriorityIdle /\ CleanupInit /\
  DepsIdle /\ PathsIdle /\ ScanIdle /\ DeleteIdle /\ GuiIdle /\ SpaceIdle /\
  CopyIdle /\ StartIdle /\ WorkerInit /\ MemoryInit

NextWorker ==
  \/ WorkerAdd /\ UNCHANGED not_worker_vars
  \/ WorkerRound /\ UNCHANGED not_worker_vars
  \/ WorkerComplete /\ UNCHANGED not_worker_vars

SpecWorker == InitWorker /\ [][NextWorker]_vars

\* the calls go on: the next step is always taken
FairWorker == SpecWorker /\ WF_vars(NextWorker)

\* ---- SpecMemory: MemoryManager.check_memory and its lock
InitMemory ==
  BackupIdle /\ AnalyzerIdle /\ QueueInit /\ PriorityIdle /\ CleanupInit /\
  DepsIdle /\ PathsIdle /\ ScanIdle /\ DeleteIdle /\ GuiIdle /\ SpaceIdle /\
  CopyIdle /\ StartIdle /\ WorkerInit /\ MemoryInit

NextMemory ==
  \/ RegisterCache /\ UNCHANGED not_memory_vars
  \/ UnregisterCache /\ UNCHANGED not_memory_vars
  \/ ClearAllCaches /\ UNCHANGED not_memory_vars
  \/ CheckMemoryCalled /\ UNCHANGED not_memory_vars
  \/ LockAcquire /\ UNCHANGED not_memory_vars
  \/ CheckMemoryStep /\ UNCHANGED not_memory_vars

SpecMemory == InitMemory /\ [][NextMemory]_vars

\* ================================================================ claims

\* ---- helpers of the claims about perform_backup

\* perform_backup is running, or has returned and nothing was called since
InRun == pc \in {"loop", "copying", "returned"}

Returned == pc = "returned"

\* the operations begun, as <<list, path>>
Begun == [i \in 1..Len(ops) |-> <<ops[i].list, ops[i].path>>]

FailedOps == {i \in 1..Len(ops) : ops[i].outcome = "failed"}

SucceededCopies ==
  {i \in 1..Len(ops) :
     ops[i].outcome = "ok" /\ ops[i].list \in {"to_copy", "to_update"}}

DeleteErrors ==
  {i \in RunErrors(report_data, clock) :
     report_data.errors[i].error[1] = "Delete error"}

\* C1 (as claimed): prepare, perform to completion without cancellation or
\* per-file failure, prepare again: to_copy, to_update and to_delete are
\* all empty.
C1_Idempotence ==
  (pc = "prepared" /\ prev_clean /\ ~stop_ever) => differences = NoDifferences

\* C2 (as claimed): whenever perform_backup has returned, end_time is stamped
\* for that run and save_report has written the report of that run (it can
\* only be written where the destination directory exists).
C2_ReportFinalised ==
  Returned =>
    /\ report_data.end_time = clock
    /\ dest_root => report_saved = [run |-> clock, end_time |-> clock]

\* C3: no operation is begun after stop() set the flag; a stop() that comes
\* while paths are still waiting makes perform_backup return False; and a
\* copy that was started is never left unfinished by the cancellation: at
\* every point between two operations, and at the return, each operation
\* begun has run to its success or its failure.
C3_Cancellation ==
  InRun =>
    /\ \A i \in 1..Len(ops) : ~ops[i].after_stop
    /\ (Returned /\ pending_at_stop) => result = "false"
    /\ pc # "copying" => \A i \in 1..Len(ops) : ops[i].outcome # "started"
    /\ \A i \in 1..Len(ops) : ops[i].outcome = "started" => i = Len(ops)

\* C3 witness: stop() came inside copy_file with paths still waiting; the
\* copy ran to its end and perform_backup returned False
C3_Witness ==
  /\ Returned
  /\ stopped = "copying"
  /\ pending_at_stop
  /\ result = "false"
  /\ Len(ops) >= 1
  /\ ops[Len(ops)].outcome = "ok"
  /\ Len(ops) < Len(Planned(differences))

C7_ExecutionOrder ==
  InRun =>
    /\ IsPrefix(Begun, Planned(differences))
    /\ \A i \in 1..Len(ops) : ops[i].outcome = "started" => i = Len(ops)

\* C7 witness: a delete, then a copy, then an update were carried out
C7_Witness ==
  /\ Returned
  /\ result = "true"
  /\ Len(ops) = 3
  /\ ops[1].list = "to_delete"
  /\ ops[2].list = "to_copy"
  /\ ops[3].list = "to_update"

\* C8 (as claimed): after perform_backup ran to completion with no delete
\* error, no path of to_delete exists under the destination and
\* deleted_files holds exactly the to_delete paths removed by this run.
C8_DeletionPostcondition ==
  (Returned /\ result = "true" /\ DeleteErrors = {}) =>
    /\ \A p \in Range(differences.to_delete) : ~dest_tree[p].exists
    /\ report_data.deleted_files = differences.to_delete

Analyzed == analysis # Unanalyzed

NoDuplicates(list) == Cardinality(Range(list)) = Len(list)

\* C5: to_copy, to_update and unchanged are pairwise disjoint and together
\* are exactly the source relpaths; to_delete is exactly the destination
\* relpaths absent from the source; no relpath is listed twice.
C5_Partition ==
  Analyzed =>
    LET to_copy == Range(analysis.to_copy)
        to_update == Range(analysis.to_update)
        unchanged == Range(analysis.unchanged)
        to_delete == Range(analysis.to_delete)
    IN /\ to_copy \cap to_update = {}
       /\ to_copy \cap unchanged = {}
       /\ to_update \cap unchanged = {}
       /\ to_copy \cup to_update \cup unchanged = DOMAIN source_files
       /\ to_delete = DOMAIN dest_files \ DOMAIN source_files
       /\ NoDuplicates(analysis.to_copy)
       /\ NoDuplicates(analysis.to_update)
       /\ NoDuplicates(analysis.unchanged)
       /\ NoDuplicates(analysis.to_delete)

\* C5 witness: an analysis of three relpaths, one only in the source, one
\* only in the destination and one in both
C5_Witness ==
  /\ Analyzed
  /\ Len(analysis.to_copy) = 1
  /\ Len(analysis.to_delete) = 1
  /\ Len(analysis.to_update) = 1
  /\ Len(analysis.unchanged) = 0

\* C6: a relpath of both inventories is in to_update exactly when the sizes
\* differ or the mtimes differ by strictly more than 2 seconds, and is in
\* unchanged otherwise, whichever side is newer.
C6_Tolerance ==
  Analyzed =>
    \A p \in DOMAIN source_files \cap DOMAIN dest_files :
      LET differs ==
            \/ source_files[p].size # dest_files[p].size
            \/ source_files[p].mtime - dest_files[p].mtime > MTIME_TOLERANCE
            \/ dest_files[p].mtime - source_files[p].mtime > MTIME_TOLERANCE
      IN /\ p \in Range(analysis.to_update) <=> differs
         /\ p \in Range(analysis.unchanged) <=> ~differs

\* C6 witness: two files of equal size exactly 2 seconds apart, one newer in
\* the source and one newer in the destination, are unchanged, and a third
\* one a second further apart is to update
C6_Witness ==
  /\ Analyzed
  /\ \E p, q, r \in DOMAIN source_files \cap DOMAIN dest_files :
       /\ source_files[p].size = dest_files[p].size
       /\ source_files[p].mtime - dest_files[p].mtime = MTIME_TOLERANCE
       /\ p \in Range(analysis.unchanged)
       /\ source_files[q].size = dest_files[q].size
       /\ dest_files[q].mtime - source_files[q].mtime = MTIME_TOLERANCE
       /\ q \in Range(analysis.unchanged)
       /\ source_files[r].size = dest_files[r].size
       /\ dest_files[r].mtime - source_files[r].mtime = MTIME_TOLERANCE + 1
       /\ r \in Range(analysis.to_update)

\* ---- FileQueue (SpecQueue)

\* C10: when get_next_operation returns an operation, every dependency of
\* it is a key of completed, the operation is no longer in the queue and
\* in_progress holds it under its path.
C10_DependencyGating ==
  returned.kind = "operation" =>
    LET operation == returned.operation IN
      /\ \A i \in 1..Len(operation.dependencies) :
           operation.dependencies[i] \in DOMAIN completed
      /\ \A k \in 1..Len(queue) : queue[k].id # operation.id
      /\ operation.path \in DOMAIN in_progress
      /\ in_progress[operation.path] = operation

\* C10 witness: an operation two directories deep was returned
C10_Witness ==
  /\ returned.kind = "operation"
  /\ Len(returned.operation.dependencies) = 2
  /\ Len(queue) = 0

\* C11 (as claimed): every call of get_next_operation returns, also when
\* no queued operation has all its dependencies in completed; it returns
\* None only with the queue empty, and otherwise an operation whose
\* dependencies are all completed.
C11_DequeueTerminates ==
  /\ q_pc # "dequeuing"
  /\ returned.kind = "None" => queue = <<>>
  /\ returned.kind = "operation" =>
       \A i \in 1..Len(returned.operation.dependencies) :
         returned.operation.dependencies[i] \in DOMAIN completed

\* _calculate_priority of an operation of the queue, in tenths
Computed(operation) ==
  calculate_priority(operation.path, operation.size, operation.operation)

AllReady(heap, done) ==
  \A k \in 1..Len(heap) :
    \A i \in 1..Len(heap[k].dependencies) :
      heap[k].dependencies[i] \in DOMAIN done

\* C12 (as claimed): when every queued operation has its dependencies
\* completed, get_next_operation returns an operation whose computed priority
\* is at least that of every operation still queued (so successive calls
\* return them in non-increasing computed priority), and the returned
\* operation has left the queue, so it is returned once.
C12_SchedulerOrdering ==
  (returned.kind = "operation" /\ AllReady(queue, completed)) =>
    \A k \in 1..Len(queue) :
      /\ Computed(returned.operation) >= Computed(queue[k])
      /\ queue[k].id # returned.operation.id

\* ---- the formula of C13, with the numbers of the claim
BaseValue(op_type) ==
  CASE op_type = DELETE -> 100
    [] op_type = MOVE -> 80
    [] op_type = UPDATE -> 60
    [] op_type = COPY -> 40

SizeAdjustment(size) ==
  CASE size < 10 * 1024 * 1024 -> 20
    [] size > 100 * 1024 * 1024 -> 0 - 10
    [] OTHER -> 0

\* C13: the priority formula.
\* The priority _calculate_priority returns is the base value of the operation
\* type (DELETE 100, MOVE 80, UPDATE 60, COPY 40), plus 20 when the size is
\* strictly below 10 MB, minus 10 when it is strictly above 100 MB, unchanged
\* at exactly 10 MB, at exactly 100 MB and in between, minus 5 for every
\* component of the path.
C13_PriorityFormula ==
  priority.kind = "priority" =>
    priority.tenths =
      10 * (BaseValue(priority_args.op_type) + SizeAdjustment(priority_args.size)
            - 5 * Len(priority_args.path))

\* a file of exactly 10 MB, two components deep, got the unadjusted priority
C13_Witness ==
  /\ priority.kind = "priority"
  /\ priority_args.size = SMALL_FILE_THRESHOLD
  /\ Len(priority_args.path) = 2
  /\ priority_args.op_type = COPY
  /\ priority.tenths = 300

\* C14 (as claimed): the completed map is bounded.
\* After any sequence of add_operation, get_next_operation and
\* complete_operation calls, completed holds no more than MAX_COMPLETED_ITEMS
\* entries, and the call that trims it does not raise.
C14_BoundedCompleted ==
  /\ completed_len <= MAX_COMPLETED_ITEMS
  /\ ~cleanup_raised

\* the ancestor directories of a path, nearest first
Ancestors(path) ==
  [i \in 1..(Len(path) - 1) |-> SubSeq(path, 1, Len(path) - i)]

\* C15 (as claimed): dependencies and enqueue.
\* For every path, relative or absolute, the list _add_dependencies builds
\* never holds anything but the ancestor directories of the path, nearest
\* first and each once (so the loop ends after at most that many rounds), and
\* the list it returns is exactly that; a path without a parent directory gets
\* no dependency.
C15_Dependencies ==
  /\ IsPrefix(deps, Ancestors(dep_path))
  /\ dep_pc = "returned" => deps = Ancestors(dep_path)

\* the stage of the operation created by the id-th add_operation: 0 not yet
\* created, 1 in the queue, 2 in in_progress, 3 in completed, 4 in none of
\* them any more (another operation was stored under its path)
Stage(id, heap, started, done, count) ==
  IF id > count THEN 0
  ELSE IF \E k \in 1..Len(heap) : heap[k].id = id THEN 1
  ELSE IF \E p \in DOMAIN started : started[p].id = id THEN 2
  ELSE IF \E p \in DOMAIN done : done[p].id = id THEN 3
  ELSE 4

\* C16: a step of complete_operation(path) with path in in_progress removes
\* that entry from in_progress and stores the same operation in completed
\* under path, the queue unchanged; with path not in in_progress it changes
\* none of queue, in_progress, completed; and in no step of any call does an
\* operation go back from completed to in_progress or the queue, or from
\* in_progress to the queue.
C16_CompletionStep ==
  [][/\ called'.name = "complete_operation" =>
          LET path == called'.path IN
            /\ queue' = queue
            /\ IF path \in DOMAIN in_progress
                 THEN /\ DOMAIN in_progress' = DOMAIN in_progress \ {path}
                      /\ \A p \in DOMAIN in_progress' :
                           in_progress'[p] = in_progress[p]
                      /\ DOMAIN completed' = DOMAIN completed \cup {path}
                      /\ completed'[path] = in_progress[path]
                      /\ \A p \in DOMAIN completed \ {path} :
                           completed'[p] = completed[p]
                 ELSE /\ in_progress' = in_progress
                      /\ completed' = completed
     /\ \A id \in 1..added :
          Stage(id, queue', in_progress', completed', added')
            >= Stage(id, queue, in_progress, completed, added)
    ]_vars

\* C16 witness: complete_operation was called for a path that was in
\* progress, with another operation still in progress and one still queued
C16_Witness ==
  /\ called.name = "complete_operation"
  /\ called.path \in DOMAIN completed
  /\ called.path \notin DOMAIN in_progress
  /\ completed[called.path].id = 1
  /\ DOMAIN in_progress # {}
  /\ queue # <<>>

\* ---- BackupManager.analyze_paths (SpecPaths)

\* the destination lies inside the directory tree of the source
Inside(dest, source) ==
  LET tree == IF resolve(source) = <<"/">> THEN <<"/">>
              ELSE resolve(source) \o <<"/">>
  IN resolve(dest) # resolve(source) /\ IsPrefix(tree, resolve(dest))

\* the five checks of analyze_paths in their order, TRUE where violated
Violations(source, dest) ==
  << ~(resolve(source) \in Directories \cup RegularFiles),
     ~(resolve(source) \in Directories),
     resolve(dest) \in RegularFiles,
     resolve(source) = resolve(dest),
     Inside(dest, source) >>

Messages ==
  << "Source path does not exist",
     "Source path must be a directory",
     "Destination path must be a directory",
     "Source and destination paths cannot be the same",
     "Destination cannot be a subdirectory of source" >>

Validated == validated # NotValidated

\* C17 (as claimed): analyze_paths returns failure with the message of the
\* first violated check, in the order source exists, source is a directory,
\* destination (if it exists) is a directory, resolved paths not identical,
\* destination not nested in source, and success only when none is violated.
C17_ValidationOrder ==
  Validated =>
    LET violated == {i \in 1..5 : Violations(source_path, dest_path)[i]}
    IN IF violated = {}
         THEN validated.valid = TRUE
         ELSE /\ validated.valid = FALSE
              /\ validated.message =
                   Messages[CHOOSE i \in violated : \A j \in violated : i <= j]

\* C18 (as claimed): analyze_paths returns 'Destination cannot be a
\* subdirectory of source' exactly when the four checks before it pass and the
\* destination lies inside the source directory tree, whichever way the two
\* paths are written; a sibling whose name starts with the source's name is
\* accepted.
C18_NestedDestination ==
  Validated =>
    (validated.message = "Destination cannot be a subdirectory of source"
       <=> /\ is_dir(source_path)
           /\ ~(exists(dest_path) /\ ~is_dir(dest_path))
           /\ Inside(dest_path, source_path))

\* C19: a prepare_backup that fails on path validation or on the free-space
\* check returns the failure message and empty differences, the difference
\* analysis not run, and leaves the source tree and the destination tree as
\* they were: nothing created, modified or deleted, no report file written.
C19_PreflightNoSideEffects ==
  [][(clock' = clock + 1 /\ pc' = "idle") =>
       /\ message' \in {"path", "space"}
       /\ differences' =
            [to_copy |-> <<>>, to_update |-> <<>>, to_delete |-> <<>>]
       /\ source_tree' = source_tree
       /\ dest_tree' = dest_tree
       /\ dest_root' = dest_root
       /\ report_saved' = report_saved
    ]_vars

\* C19 witness: prepare_backup failed its pre-flight on two trees that
\* differ, after an earlier run had changed the destination
C19_Witness ==
  /\ pc = "idle"
  /\ clock = 2
  /\ message \in {"path", "space"}
  /\ differences = NoDifferences
  /\ analyze_differences(source_tree, dest_tree, dest_root, running)
       # NoDifferences
  /\ report_saved.run = 1

\* C20 (as claimed): prepare_backup reports 'No files need to be updated'
\* exactly when to_copy, to_update and to_delete are all three empty, and
\* otherwise a count of files needing action.
C20_SummaryMessage ==
  pc = "prepared" =>
    IF Len(differences.to_copy) = 0 /\ Len(differences.to_update) = 0
         /\ Len(differences.to_delete) = 0
      THEN message = "No files need to be updated"
      ELSE message = "Found files to process"

\* ---- BackupManager.analyze_differences (SpecScan)

Scanned == scan_differences # NotScanned

\* C21 (as claimed): a relpath matching an exclusion pattern never appears in
\* to_copy, to_update or to_delete, whether the file exists only in the
\* source, only in the destination, or in both.
C21_ExclusionUniform ==
  Scanned =>
    \A p \in exclude_patterns :
      /\ p \notin Range(scan_differences.to_copy)
      /\ p \notin Range(scan_differences.to_update)
      /\ p \notin Range(scan_differences.to_delete)

\* C22 (as claimed): with no exclusion pattern, to_copy, to_update and
\* to_delete of BackupManager.analyze_differences are those of
\* FileAnalyzer.analyze_differences on the inventories of the two trees.
C22_DiffEquivalence ==
  (Scanned /\ exclude_patterns = {}) =>
    LET engine ==
          FileAnalyzer_analyze_differences(get_files_info(scan_source, {}),
                                           get_files_info(scan_dest, {}))
    IN /\ scan_differences.to_copy = engine.to_copy
       /\ scan_differences.to_update = engine.to_update
       /\ scan_differences.to_delete = engine.to_delete

\* ---- FileHandler.delete_path (SpecDelete)

\* C23 (as claimed): for a writable directory tree of any depth, with
\* non-empty subdirectories, delete_path returns success with nothing of the
\* tree left, and never removes a directory that still has content.
C23_RecursiveDelete ==
  /\ \A dir \in EntryDirs :
       dir \notin del_tree => Content_of(dir, del_tree) = {}
  /\ del_pc = "returned" =>
       /\ del_result = "true"
       /\ del_tree = {}
       /\ ~del_root

\* ---- BackupManager.report_data over several runs (Spec)

\* C24 (as claimed): when prepare_backup has started a run on a BackupManager
\* that executed an earlier run, the active report has no end_time and its
\* copied_files, updated_files, deleted_files and errors hold only entries of
\* the run just started, which has produced none yet.
C24_ReportPerRun ==
  (pc = "prepared" /\ report_saved.run > 0) =>
    /\ report_data.end_time = 0
    /\ report_data.copied_files = <<>>
    /\ report_data.updated_files = <<>>
    /\ report_data.deleted_files = <<>>
    /\ \A i \in 1..Len(report_data.errors) : report_data.errors[i].time = clock

\* C25 (as claimed): prepare_backup does not return success with the
\* differences of a scan that the cancellation flag stopped early: the
\* differences returned with success are those of the two trees in full.
C25_NoPartialScan ==
  pc = "prepared" =>
    differences = analyze_differences(source_tree, dest_tree, dest_root, TRUE)

\* ---- MainWindow and its worker threads (SpecGui)

\* C26 (as claimed): at any time at most one worker thread, a ScanThread or a
\* BackupThread, is operating on the shared BackupManager.
C26_SingleWorker == scan_threads + backup_threads <= 1

\* ---- the progress callback (Spec)

\* C27 (as claimed): with BackupThread.update_progress as the progress
\* callback, every call perform_backup makes in its delete, copy and update
\* loops is consumed without raising, so a batch that began to process a
\* path is never aborted through the outer handler.
C27_ProgressContract ==
  (callback = "update_progress" /\ pc = "returned" /\ ops # <<>>) => ~escaped

\* ---- prepare_backup's free-space check (SpecSpace)

\* C28 (as claimed): when the check itself raises nothing, prepare_backup
\* fails with the 'Insufficient space' message if and only if the free space
\* of the destination volume is strictly smaller than the total size of the
\* source files not excluded; with equality it goes on to the analysis.
C28_FreeSpaceGate ==
  space_result \in {"insufficient", "analysis"} =>
    (space_result = "insufficient"
       <=> dest_volume_free < source_size(space_sizes, space_excluded))

\* ---- FileHandler.copy_file (SpecCopy)

\* C29: copy_file ends by returning a value, never by an exception; for a
\* missing or unreadable source, or an existing destination that is not
\* writable, it returns (False, message) and the destination file is exactly
\* as it was before the call.
C29_CopyFailuresAreValues ==
  cp_pc = "returned" =>
    /\ cp_result \in {"true", "false"}
    /\ (~cp_src.exists \/ ~cp_src.access \/ (cp_old.exists /\ ~cp_old.access))
         => /\ cp_result = "false"
            /\ cp_message \in {"Source file does not exist",
                               "Source file is not readable",
                               "Destination file is not writable"}
            /\ cp_dst = cp_old

\* C29 witness: a readable source and a destination with content that is not
\* writable; copy_file has returned
C29_Witness ==
  /\ cp_pc = "returned"
  /\ cp_src.exists /\ cp_src.access /\ cp_src.content # <<>>
  /\ cp_old.exists /\ ~cp_old.access /\ cp_old.content # <<>>
  /\ cp_message = "Destination file is not writable"

\* copy_file was interrupted by a fault of src.read or dest.write
Interrupted == cp_pc = "returned" /\ cp_fault \in {"read", "write"}

RunEntries(list, path) ==
  Cardinality({j \in 1..Len(list) :
                 list[j].time = clock /\ list[j].path = path})

\* errors of the current run recorded for a path of a list
RunErrorEntries(l, path) ==
  Cardinality({j \in RunErrors(report_data, clock) :
                 report_data.errors[j].error = <<l, path>>})

\* the copy and update operations of the current run that have ended
Ended ==
  {i \in 1..Len(ops) :
     ops[i].list \in {"to_copy", "to_update"} /\ ops[i].outcome # "started"}

\* C31: in one perform_backup run every attempted path of to_copy has
\* produced exactly one entry, in copied_files when the copy succeeded and in
\* errors when it failed, and every attempted path of to_update exactly one
\* entry in updated_files or in errors; no to_copy path of the run is in
\* updated_files and no to_update path in copied_files.
C31_ReportBucketing ==
  InRun =>
    \A i \in Ended :
      LET p == ops[i].path
          copied == RunEntries(report_data.copied_files, p)
          updated == RunEntries(report_data.updated_files, p)
          failed == RunErrorEntries(ops[i].list, p)
      IN /\ copied + updated + failed = 1
         /\ failed = 1 <=> ops[i].outcome = "failed"
         /\ ops[i].list = "to_copy" => updated = 0
         /\ ops[i].list = "to_update" => copied = 0

\* C31 witness: a second run on the same manager that copied one path and
\* failed to update another
C31_Witness ==
  /\ Returned
  /\ clock = MaxRuns
  /\ \E i, j \in Ended :
       /\ ops[i].list = "to_copy" /\ ops[i].outcome = "ok"
       /\ ops[j].list = "to_update" /\ ops[j].outcome = "failed"

\* ---- stop() at the start of a run (SpecStart)

\* C32 (as claimed): a stop() issued after the worker was started and before
\* its first cancellation check is never lost: perform_backup returns False
\* without having processed the whole batch.
C32_StopNotLost ==
  (st_pc = "returned" /\ st_stop \in {"before_entry", "before_first_check"})
    => st_result = "false" /\ st_done < st_batch

\* ---- a cancellation and the next scan (Spec)

\* C33 (as claimed): after a run was cancelled with stop(), the following
\* prepare_backup on the same manager returns the differences a new manager
\* would return for the two trees.
C33_CancellationDoesNotLeak ==
  [][(pc = "returned" /\ result = "false" /\ stopped # "no" /\ ~escaped
        /\ pc' = "prepared")
       => differences' =
            analyze_differences(source_tree', dest_tree', dest_root', TRUE)]_vars

\* ---- what perform_backup touches (Spec)

\* the paths the differences list
Listed ==
  Range(differences.to_delete) \cup Range(differences.to_copy)
    \cup Range(differences.to_update)

\* a step of perform_backup keeps the source tree and every destination file
\* that is neither listed nor the report
FrameStep ==
  pc \in {"prepared", "loop", "copying"} =>
    /\ source_tree' = source_tree
    /\ \A p \in AllPaths :
         dest_tree'[p] # dest_tree[p] => p \in Listed \cup {ReportName}

\* C34: perform_backup never modifies or deletes a file of the source tree,
\* and in the destination tree it changes no file other than the paths of
\* to_delete, to_copy and to_update and backup_report.json.
C34_FrameOfPerformBackup == [][FrameStep]_vars

\* C34 witness: a run that copied or updated a path has returned True, and
\* the destination holds a file the differences do not list
C34_Witness ==
  /\ Returned
  /\ result = "true"
  /\ \E i \in SucceededCopies : TRUE
  /\ \E p \in Paths : p \notin Listed /\ dest_tree[p].exists

\* ---- the report and the next scan (Spec)

\* C35 (as claimed): after a run persisted backup_report.json at the
\* destination root, a later analysis of the same source and destination
\* never lists backup_report.json in to_delete.
C35_ReportNotScheduledForDeletion ==
  (pc = "prepared" /\ report_saved.run > 0 /\ dest_tree[ReportName].exists)
    => ReportName \notin Range(differences.to_delete)

\* ---- conservation of the scheduler's operations (SpecQueue)

\* C36 (as claimed): after any sequence of add_operation, get_next_operation
\* and complete_operation, two operations of one path included, the sizes of
\* queue, in_progress and completed add up to the number of operations added.
C36_Conservation ==
  Len(queue) + Cardinality(DOMAIN in_progress) + Cardinality(DOMAIN completed)
    = added

\* ---- a worker draining the queue (FairWorker)

\* the operation just returned lies beneath no directory whose operation is
\* not completed
ParentsCompleted ==
  w_pc = "complete" =>
    \A p \in w_enqueued :
      (IsPrefix(p, w_returned.operation.path) /\ p # w_returned.operation.path)
        => p \in DOMAIN w_completed

\* every operation is in completed, queue and in_progress are empty
Drained ==
  /\ w_pc = "done"
  /\ w_queue = <<>>
  /\ DOMAIN w_in_progress = {}
  /\ DOMAIN w_completed = w_enqueued

\* C37: when every ancestor directory of an enqueued path is itself an
\* enqueued path (paths distinct), a worker that repeatedly calls
\* get_next_operation and then complete_operation on the returned path
\* eventually has every operation in completed, with queue and in_progress
\* empty, whatever the initial priorities; and a directory's operation is
\* completed before any operation beneath it is returned.
C37_SchedulerLiveness == []ParentsCompleted /\ <>Drained

\* C37 witness: the four operations, the chain a, a/b, a/b/c among them, are
\* all completed after calls that had to put operations back
C37_Witness ==
  /\ Drained
  /\ w_enqueued = WorkerPaths
  /\ w_putbacks > MaxGap

\* ---- MemoryManager.check_memory (SpecMemory)

\* C38: check_memory always returns: whatever the memory usage, also above
\* the warning threshold where the caches are cleaned, the call never waits
\* for the lock that it holds itself
C38_CheckMemoryReturns ==
  ~(mm_pc = "acquire_clean" /\ mm_lock = "check_memory")

====
